---- MODULE Spec2Model ----
(***************************************************************************)
(* A model of the meguru trip-planning core: the Listener slot-filling     *)
(* pass, the Readiness Gate, the Trip Brief Memory, the trip pipeline with *)
(* its research cache, the Refiner's placement step and the llm_json       *)
(* retry wrapper.                                                          *)
(*                                                                         *)
(* Python values are tagged records [t, s, n]: t is the type tag, s the    *)
(* text or list payload, n the integer payload.  A text is a sequence of   *)
(* atoms (words) that stand for the words joined by single spaces; the     *)
(* atoms WS and NL are whitespace, so strip() and split() are computed on  *)
(* the sequence.                                                           *)
(***************************************************************************)
EXTENDS Integers, Sequences, FiniteSets, TLC

\* ------------------------------------------------------------------ bounds
MaxWords == 2

\* ------------------------------------------------------------ Python values
Absent == [t |-> "absent", s |-> <<>>, n |-> 0]
NoneV == [t |-> "none", s |-> <<>>, n |-> 0]
S(seq) == [t |-> "str", s |-> seq, n |-> 0]
I(k) == [t |-> "int", s |-> <<>>, n |-> k]
L(seq) == [t |-> "list", s |-> seq, n |-> 0]

WS == " "
NL == "/n"
IsSpace(a) == a \in {WS, NL}

\* bool(value)
Truthy(v) ==
    CASE v.t = "str" -> v.s # <<>>
      [] v.t = "list" -> v.s # <<>>
      [] v.t = "int" -> v.n # 0
      [] OTHER -> FALSE

\* mapping.get(key): an absent key reads as None
Get(m, k) == IF m[k].t = "absent" THEN NoneV ELSE m[k]
\* mapping.get(key, default)
GetOr(m, k, d) == IF m[k].t = "absent" THEN d ELSE m[k]

IntAtoms == <<"1", "2", "3", "4", "5", "6", "7", "8", "9", "10", "11", "12">>
IntAtom(k) == IF k = 0 THEN "0" ELSE IF k \in 1..12 THEN IntAtoms[k] ELSE "-1"

\* str(value)
PyStr(v) ==
    CASE v.t = "str" -> v.s
      [] v.t = "none" -> <<"None">>
      [] v.t = "int" -> <<IntAtom(v.n)>>
      [] OTHER -> <<"[...]">>

RECURSIVE LStrip(_)
LStrip(s) == IF s # <<>> /\ IsSpace(Head(s)) THEN LStrip(Tail(s)) ELSE s
RECURSIVE RStrip(_)
RStrip(s) ==
    IF s # <<>> /\ IsSpace(s[Len(s)]) THEN RStrip(SubSeq(s, 1, Len(s) - 1)) ELSE s
\* str.strip()
Strip(s) == RStrip(LStrip(s))
\* str.split()
Split(s) == SelectSeq(s, LAMBDA a : ~IsSpace(a))

\* str.lower() of one atom
Lower(a) ==
    CASE a = "Kyoto" -> "kyoto"
      [] a = "Tokyo" -> "tokyo"
      [] a = "June" -> "june"
      [] a = "Moderate" -> "moderate"
      [] a = "Balanced" -> "balanced"
      [] a = "Nightlife" -> "nightlife"
      [] a = "None" -> "none"
      [] a = "Peaceful" -> "peaceful"
      [] a = "Birthday" -> "birthday"
      [] OTHER -> a

\* str.title() of one atom
TitleAtom(a) ==
    CASE Lower(a) = "kyoto" -> "Kyoto"
      [] Lower(a) = "tokyo" -> "Tokyo"
      [] Lower(a) = "june" -> "June"
      [] Lower(a) = "moderate" -> "Moderate"
      [] Lower(a) = "balanced" -> "Balanced"
      [] Lower(a) = "nightlife" -> "Nightlife"
      [] Lower(a) = "in" -> "In"
      [] Lower(a) = "couple" -> "Couple"
      [] OTHER -> a
Title(s) == [i \in 1..Len(s) |-> TitleAtom(s[i])]

\* number of characters of an atom
AtomLen(a) ==
    CASE a = "in" -> 2
      [] IsSpace(a) -> 1
      [] Lower(a) = "june" -> 4
      [] Lower(a) \in {"kyoto", "tokyo"} -> 5
      [] Lower(a) = "couple" -> 6
      [] Lower(a) = "moderate" -> 8
      [] OTHER -> 9

\* the keywords of the source's tables that occur inside a lower-cased atom
Substrings(a) ==
    CASE a = "june" -> {"june"}
      [] a = "moderate" -> {"moderate"}
      [] a = "balanced" -> {"balanced"}
      [] a = "couple" -> {"couple"}
      [] a = "friends" -> {"friends"}
      [] a = "nightlife" -> {"night", "nightlife"}
      [] a = "none" -> {"one"}
      [] a = "peaceful" -> {"peace", "peaceful"}
      [] a = "birthday" -> {"birthday"}
      [] a = "anniversary" -> {"anniversary"}
      [] OTHER -> {}
\* the keyword parts an atom ends with / starts with (multi-word keywords)
Suffixes(a) == IF a \in {"laid", "all", "high", "foodie"} THEN {a} ELSE {}
Prefixes(a) == IF a \in {"back", "out", "end", "adventures"} THEN {a} ELSE {}

\* _normalise: lower-case, collapse whitespace, strip
_normalise(text) == [i \in 1..Len(Split(text)) |-> Lower(Split(text)[i])]

\* `kw in lowered` for a keyword given as its sequence of words
Occurs(kw, lowered) ==
    IF Len(kw) = 1
    THEN \E i \in 1..Len(lowered) : kw[1] \in Substrings(lowered[i])
    ELSE \E i \in 1..(Len(lowered) - Len(kw) + 1) :
            /\ kw[1] \in Suffixes(lowered[i])
            /\ kw[Len(kw)] \in Prefixes(lowered[i + Len(kw) - 1])
            /\ \A j \in 2..(Len(kw) - 1) : lowered[i + j - 1] = kw[j]

Min(set) == CHOOSE x \in set : \A y \in set : x <= y


\* ---------------------------------------------------------------- Listener
_VIBE_OPTIONS ==
    <<"Nightlife", "Foodie adventures", "Culture & history", "Outdoors & nature",
      "Something eclectic">>
\* option.lower() as the words of the option
VibeOptionWords(o) ==
    CASE o = "Nightlife" -> <<"nightlife">>
      [] o = "Foodie adventures" -> <<"foodie", "adventures">>
      [] o = "Culture & history" -> <<"culture", "&", "history">>
      [] o = "Outdoors & nature" -> <<"outdoors", "&", "nature">>
      [] OTHER -> <<"something", "eclectic">>
_PACE_OPTIONS == {<<"Laid", "back">>, <<"Balanced">>, <<"All-out">>}
_BUDGET_OPTIONS == {<<"Shoestring">>, <<"Moderate">>, <<"Splurge">>}

GroupTypeOptions ==
    << <<<<"solo">>, "Just me">>, <<<<"alone">>, "Just me">>, <<<<"myself">>, "Just me">>,
       <<<<"partner">>, "Partner getaway">>, <<<<"spouse">>, "Partner getaway">>,
       <<<<"wife">>, "Partner getaway">>, <<<<"husband">>, "Partner getaway">>,
       <<<<"girlfriend">>, "Partner getaway">>, <<<<"boyfriend">>, "Partner getaway">>,
       <<<<"couple">>, "Partner getaway">>, <<<<"family">>, "Family crew">>,
       <<<<"kids">>, "Family crew">>, <<<<"parents">>, "Family crew">>,
       <<<<"friends">>, "Friends trip">>, <<<<"buddies">>, "Friends trip">>,
       <<<<"mates">>, "Friends trip">>, <<<<"cowork">>, "Workmates">>,
       <<<<"colleague">>, "Workmates">>, <<<<"team">>, "Workmates">>,
       <<<<"office">>, "Workmates">> >>

\* the words of a label of the source, as a text
LabelText(label) ==
    CASE label = "Just me" -> <<"Just", "me">>
      [] label = "Partner getaway" -> <<"Partner", "getaway">>
      [] label = "Family crew" -> <<"Family", "crew">>
      [] label = "Friends trip" -> <<"Friends", "trip">>
      [] label = "Laid back" -> <<"Laid", "back">>
      [] OTHER -> <<label>>

FirstLabel(table, lowered) ==
    LET hits == {i \in 1..Len(table) : Occurs(table[i][1], lowered)}
    IN IF hits = {} THEN NoneV ELSE S(LabelText(table[Min(hits)][2]))

_extract_group_type(text) == FirstLabel(GroupTypeOptions, _normalise(text))

_NUMBER_WORDS ==
    <<"one", "two", "three", "four", "five", "six", "seven", "eight", "nine", "ten",
      "eleven", "twelve">>
KeywordDefaults ==
    << <<"couple", 2>>, <<"pair", 2>>, <<"duo", 2>>, <<"solo", 1>>, <<"myself", 1>> >>

\* int() of an atom made of digits, -1 for an atom without digits
DigitsOf(a) ==
    IF a = "0" THEN 0
    ELSE IF \E k \in 1..12 : IntAtoms[k] = a THEN CHOOSE k \in 1..12 : IntAtoms[k] = a
    ELSE -1

_extract_group_size(text) ==
    LET digits == SelectSeq(text, LAMBDA a : DigitsOf(a) >= 0)
        lowered == _normalise(text)
        words == {k \in 1..Len(_NUMBER_WORDS) : Occurs(<<_NUMBER_WORDS[k]>>, lowered)}
        defaults == {k \in 1..Len(KeywordDefaults) : Occurs(<<KeywordDefaults[k][1]>>, lowered)}
    IN IF digits # <<>> /\ DigitsOf(digits[1]) > 0 THEN I(DigitsOf(digits[1]))
       ELSE IF words # {} THEN I(Min(words))
       ELSE IF defaults # {} THEN I(KeywordDefaults[Min(defaults)][2])
       ELSE NoneV

_VIBE_KEYWORDS ==
    << <<"night", "Nightlife">>, <<"club", "Nightlife">>, <<"bar", "Nightlife">>,
       <<"food", "Foodie adventures">>, <<"eat", "Foodie adventures">>,
       <<"restaurant", "Foodie adventures">>, <<"culture", "Culture & history">>,
       <<"museum", "Culture & history">>, <<"history", "Culture & history">>,
       <<"outdoor", "Outdoors & nature">>, <<"hike", "Outdoors & nature">>,
       <<"nature", "Outdoors & nature">>, <<"forest", "Outdoors & nature">>,
       <<"eclectic", "Something eclectic">>, <<"art", "Something eclectic">>,
       <<"design", "Something eclectic">> >>

InSeq(x, seq) == \E i \in 1..Len(seq) : seq[i] = x

RECURSIVE VibesByOption(_, _, _)
VibesByOption(lowered, k, detected) ==
    IF k > Len(_VIBE_OPTIONS) THEN detected
    ELSE VibesByOption(lowered, k + 1,
            IF Occurs(VibeOptionWords(_VIBE_OPTIONS[k]), lowered)
            THEN Append(detected, _VIBE_OPTIONS[k]) ELSE detected)
RECURSIVE VibesByKeyword(_, _, _)
VibesByKeyword(lowered, k, detected) ==
    IF k > Len(_VIBE_KEYWORDS) THEN detected
    ELSE VibesByKeyword(lowered, k + 1,
            IF Occurs(<<_VIBE_KEYWORDS[k][1]>>, lowered) /\ ~InSeq(_VIBE_KEYWORDS[k][2], detected)
            THEN Append(detected, _VIBE_KEYWORDS[k][2]) ELSE detected)
\* the chunks of re.split(r"[,/]| and ", lowered): the atoms hold no comma or
\* slash, so the text splits at the word "and"
RECURSIVE Chunks(_, _)
Chunks(lowered, cur) ==
    IF lowered = <<>> THEN <<cur>>
    ELSE IF Head(lowered) = "and" /\ cur # <<>> /\ Len(lowered) > 1
         THEN <<cur>> \o Chunks(Tail(lowered), <<>>)
         ELSE Chunks(Tail(lowered), Append(cur, Head(lowered)))
RECURSIVE VibesByChunk(_, _, _)
VibesByChunk(chunks, k, detected) ==
    IF k > Len(_VIBE_OPTIONS) THEN detected
    ELSE VibesByChunk(chunks, k + 1,
            IF InSeq(VibeOptionWords(_VIBE_OPTIONS[k]), chunks) /\ ~InSeq(_VIBE_OPTIONS[k], detected)
            THEN Append(detected, _VIBE_OPTIONS[k]) ELSE detected)
_extract_vibes(text) ==
    LET lowered == _normalise(text)
        d1 == VibesByOption(lowered, 1, <<>>)
        d2 == VibesByKeyword(lowered, 1, d1)
    IN VibesByChunk(Chunks(lowered, <<>>), 1, d2)

_MOOD_KEYWORDS ==
    << <<<<"burned", "out">>, "burned_out">>, <<<<"burnt", "out">>, "burned_out">>,
       <<<<"burned-out">>, "burned_out">>, <<<<"burnt-out">>, "burned_out">>,
       <<<<"overwhelmed">>, "burned_out">>, <<<<"exhausted">>, "burned_out">>,
       <<<<"fried">>, "burned_out">>, <<<<"stressed">>, "burned_out">>,
       <<<<"drained">>, "burned_out">>,
       <<<<"celebrate">>, "celebration">>, <<<<"celebration">>, "celebration">>,
       <<<<"birthday">>, "celebration">>, <<<<"anniversary">>, "celebration">>,
       <<<<"promotion">>, "celebration">>, <<<<"engagement">>, "celebration">>,
       <<<<"honeymoon">>, "celebration">>, <<<<"bachelorette">>, "celebration">>,
       <<<<"bachelor", "party">>, "celebration">>, <<<<"graduation">>, "celebration">>,
       <<<<"peaceful">>, "peaceful">>, <<<<"peace">>, "peaceful">>, <<<<"calm">>, "peaceful">>,
       <<<<"serene">>, "peaceful">>, <<<<"restful">>, "peaceful">>, <<<<"unwind">>, "peaceful">>,
       <<<<"relax">>, "peaceful">>, <<<<"recharge">>, "peaceful">>, <<<<"reset">>, "peaceful">>,
       <<<<"quiet">>, "peaceful">> >>
_extract_mood(text) ==
    IF _normalise(text) = <<>> THEN NoneV ELSE FirstLabel(_MOOD_KEYWORDS, _normalise(text))

AnyOccurs(kws, lowered) == \E kw \in kws : Occurs(kw, lowered)

_infer_travel_pace(text) ==
    LET lowered == _normalise(text)
    IN IF AnyOccurs({<<"laid", "back">>, <<"laid-back">>, <<"laidback">>, <<"relax">>,
                     <<"slow">>, <<"chill">>, <<"easy">>, <<"unhurried">>}, lowered)
       THEN S(<<"Laid", "back">>)
       ELSE IF AnyOccurs({<<"balanced">>, <<"mix">>, <<"medium">>, <<"moderate">>}, lowered)
       THEN S(<<"Balanced">>)
       ELSE IF AnyOccurs({<<"packed">>, <<"full">>, <<"busy">>, <<"nonstop">>,
                          <<"all", "out">>, <<"all-out">>}, lowered)
       THEN S(<<"All-out">>)
       ELSE NoneV

_infer_budget(text) ==
    LET lowered == _normalise(text)
    IN IF AnyOccurs({<<"cheap">>, <<"budget">>, <<"shoestring">>, <<"tight">>, <<"save">>}, lowered)
       THEN S(<<"Shoestring">>)
       ELSE IF AnyOccurs({<<"mid">>, <<"moderate">>, <<"reasonable">>, <<"comfortable">>,
                          <<"middle">>}, lowered)
       THEN S(<<"Moderate">>)
       ELSE IF AnyOccurs({<<"lux">>, <<"splurge">>, <<"premium">>, <<"fancy">>,
                          <<"high", "end">>, <<"high-end">>}, lowered)
       THEN S(<<"Splurge">>)
       ELSE NoneV

_MONTH_NAMES ==
    {<<"january">>, <<"february">>, <<"march">>, <<"april">>, <<"may">>, <<"june">>, <<"july">>,
     <<"august">>, <<"september">>, <<"october">>, <<"november">>, <<"december">>}
\* an atom holding four digits in a row, or d/d
DateLike(a) == a \in {"2025", "6/1"}
_extract_timing(text) ==
    LET lowered == _normalise(text)
    IN IF AnyOccurs(_MONTH_NAMES, lowered) THEN S(Strip(text))
       ELSE IF \E i \in 1..Len(lowered) : DateLike(lowered[i]) THEN S(Strip(text))
       ELSE IF AnyOccurs({<<"week">>, <<"weekend">>, <<"month">>, <<"summer">>, <<"winter">>}, lowered)
       THEN S(Strip(text))
       ELSE NoneV

_DESTINATION_STOP_WORDS ==
    {"in", "for", "with", "during", "over", "around", "through", "while", "when", "because",
     "since", "after", "before", "on", "at", "by", "from", "this", "next", "the", "a", "an",
     "my", "our", "his", "her", "their"}

\* the atom ends with one of the pattern's anchors to|in|around|for (the
\* pattern is not anchored at a word start, so "Kyoto" ends with "to")
EndsWithAnchor(a) == Lower(a) \in {"to", "in", "around", "for", "kyoto", "tokyo"}
\* the atom is made of the characters [A-Za-z\-'] only
Alpha(a) == ~IsSpace(a) /\ DigitsOf(a) < 0 /\ ~DateLike(a)
Max(set) == CHOOSE x \in set : \A y \in set : x >= y
RECURSIVE CharLen(_)
CharLen(s) == IF s = <<>> THEN 0 ELSE AtomLen(Head(s)) + (IF Len(s) > 1 THEN 1 ELSE 0) + CharLen(Tail(s))
\* the tokens kept by the stop-word loop
RECURSIVE KeepTokens(_, _)
KeepTokens(raw, tokens) ==
    IF raw = <<>> THEN tokens
    ELSE IF Lower(Head(raw)) \in _DESTINATION_STOP_WORDS /\ tokens # <<>> THEN tokens
    ELSE KeepTokens(Tail(raw), Append(tokens, Head(raw)))

_guess_destination(text) ==
    LET stripped == Strip(text)
        n == Len(stripped)
        NextWord(i) == Min({k \in (i + 1)..n : ~IsSpace(stripped[k])})
        RunEnd(k) == Max({j \in k..n : \A m \in k..j : Alpha(stripped[m]) \/ IsSpace(stripped[m])})
        Matches(i) ==
            /\ EndsWithAnchor(stripped[i])
            /\ \E k \in (i + 1)..n : ~IsSpace(stripped[k])
            /\ Alpha(stripped[NextWord(i)])
            /\ CharLen(SubSeq(stripped, NextWord(i), RunEnd(NextWord(i)))) >= 3
        hits == {i \in 1..n : Matches(i)}
        candidate == Strip(SubSeq(stripped, NextWord(Min(hits)), RunEnd(NextWord(Min(hits)))))
        tokens == KeepTokens(Split(candidate), <<>>)
    IN IF stripped = <<>> THEN NoneV
       ELSE IF hits # {} /\ tokens # <<>> THEN S(Title(tokens))
       ELSE IF Len(Split(stripped)) \in 1..4 THEN S(Title(stripped))
       ELSE NoneV


CtxKeys ==
    {"destination", "timing_note", "start_date", "end_date", "flexible_months", "vibe",
     "travel_pace", "budget", "group_type", "group_size", "mood", "tone", "occasion", "notes"}
UpdateKeys ==
    {"notes_append", "destination", "timing_note", "vibe_add", "travel_pace", "budget",
     "group_type", "group_size", "mood", "liked_cards_add", "saved_cards_add",
     "liked_cards_remove", "saved_cards_remove", "activity_catalog"}
NoUpdates == [k \in UpdateKeys |-> Absent]

\* updates[key] = value when the value is truthy
SetIf(updates, key, value) == IF Truthy(value) THEN [updates EXCEPT ![key] = value] ELSE updates

_coerce_positive_int(value) ==
    CASE value.t = "int" -> IF value.n > 0 THEN value ELSE NoneV
      [] value.t = "str" ->
            LET cleaned == Strip(value.s)
            IN IF Len(cleaned) = 1 /\ DigitsOf(cleaned[1]) > 0 THEN I(DigitsOf(cleaned[1])) ELSE NoneV
      [] OTHER -> NoneV

_required_fields == <<"destination", "timing", "vibe", "travel_pace", "budget", "group">>

_has_field(context, field) ==
    CASE field = "destination" -> Strip(PyStr(GetOr(context, "destination", S(<<>>)))) # <<>>
      [] field = "timing" ->
            \/ Truthy(Get(context, "start_date")) /\ Truthy(Get(context, "end_date"))
            \/ Truthy(Get(context, "flexible_months"))
            \/ Strip(PyStr(GetOr(context, "timing_note", S(<<>>)))) # <<>>
      [] field = "vibe" -> Truthy(Get(context, "vibe"))
      [] field = "travel_pace" ->
            Strip(PyStr(GetOr(context, "travel_pace", S(<<>>)))) \in _PACE_OPTIONS
      [] field = "budget" ->
            Strip(PyStr(GetOr(context, "budget", S(<<>>)))) \in _BUDGET_OPTIONS
      [] field = "group" ->
            \/ Strip(PyStr(GetOr(context, "group_type", S(<<>>)))) # <<>>
            \/ _coerce_positive_int(Get(context, "group_size")).t # "none"
      [] OTHER -> FALSE

\* list(dict.fromkeys(seq)): drop repeats, keep the first occurrences in order
RECURSIVE Dedupe(_, _)
Dedupe(seq, acc) ==
    IF seq = <<>> THEN acc
    ELSE Dedupe(Tail(seq), IF InSeq(Head(seq), acc) THEN acc ELSE Append(acc, Head(seq)))

\* _detect_missing_fields that keeps the pending fields the turn resolved
_detect_missing_fields_keeping(context, pending, resolved_fields) ==
    LET unmet == {k \in 1..Len(_required_fields) : ~_has_field(context, _required_fields[k])}
    IN IF pending # <<>> THEN Dedupe(pending, <<>>)
       ELSE IF unmet # {} THEN <<_required_fields[Min(unmet)]>>
       ELSE <<>>

_detect_missing_fields(context, pending, resolved_fields) ==
    LET remaining == SelectSeq(pending, LAMBDA f : ~InSeq(f, resolved_fields))
        unmet == {k \in 1..Len(_required_fields) : ~_has_field(context, _required_fields[k])}
    IN IF remaining # <<>> THEN Dedupe(remaining, <<>>)
       ELSE IF unmet # {} THEN <<_required_fields[Min(unmet)]>>
       ELSE <<>>

\* the place of a vibe label in Python's string order
SortRank(a) ==
    CASE a = "Culture & history" -> 1
      [] a = "Foodie adventures" -> 2
      [] a = "Nightlife" -> 3
      [] a = "Outdoors & nature" -> 4
      [] a = "Something eclectic" -> 5
      [] a = "nightlife" -> 6
      [] OTHER -> 7
RECURSIVE Sorted(_)
Sorted(set) ==
    IF set = {} THEN <<>>
    ELSE LET m == CHOOSE x \in set : \A y \in set : SortRank(x) <= SortRank(y)
         IN <<m>> \o Sorted(set \ {m})
Range(seq) == {seq[i] : i \in 1..Len(seq)}

\* iterating the context's vibe entry raises TypeError when it is None
MergeRaises(context, updates) ==
    Truthy(updates["vibe_add"]) /\ context["vibe"].t = "none"

_merge_context(context, updates) ==
    LET m0 == [context EXCEPT
                  !["notes"] = GetOr(context, "notes", S(<<>>)),
                  !["vibe"] = GetOr(context, "vibe", L(<<>>)),
                  !["timing_note"] = Get(context, "timing_note")]
        existing == Strip(PyStr(GetOr(m0, "notes", S(<<>>))))
        addition == Strip(PyStr(updates["notes_append"]))
        m1 == IF Truthy(updates["notes_append"])
              THEN [m0 EXCEPT !["notes"] =
                        IF existing # <<>> THEN S(Strip(existing \o <<NL>> \o addition))
                        ELSE S(addition)]
              ELSE m0
        Copy(m, key) == IF Truthy(updates[key]) THEN [m EXCEPT ![key] = updates[key]] ELSE m
        m2 == Copy(Copy(Copy(Copy(Copy(Copy(Copy(m1, "destination"), "timing_note"),
                    "travel_pace"), "budget"), "group_type"), "group_size"), "mood")
        vibes == IF Truthy(updates["vibe_add"]) THEN updates["vibe_add"].s ELSE <<>>
        current == Range(m2["vibe"].s) \cup Range(vibes)
    IN IF vibes # <<>> THEN [m2 EXCEPT !["vibe"] = L(Sorted(current))] ELSE m2

\* merged = context: the caller's own mapping under a second name
dict_alias(context) == [same_object |-> TRUE, entries |-> context]
\* merged = dict(context): a new mapping holding the caller's entries
dict_copy(context) == [same_object |-> FALSE, entries |-> context]
\* the caller's mapping once _merge_context has run: every write of
\* _merge_context is an assignment to a key of merged (none works in place on
\* an entry's value), so it shows in the caller's mapping only when merged is
\* that very mapping
ContextAfterMerge(context, updates) ==
    IF dict_copy(context).same_object THEN _merge_context(dict_copy(context).entries, updates)
    ELSE context

CardActions == {"like_activity", "save_activity", "unlike_activity", "unsave_activity"}

\* the updates a chat message yields
MessageUpdates(text) ==
    LET u1 == SetIf(NoUpdates, "notes_append", S(text))
        u2 == SetIf(u1, "destination", _guess_destination(text))
        u3 == SetIf(u2, "timing_note", _extract_timing(text))
        u4 == SetIf(u3, "vibe_add", L(_extract_vibes(text)))
        u5 == SetIf(u4, "travel_pace", _infer_travel_pace(text))
        u6 == SetIf(u5, "budget", _infer_budget(text))
        u7 == SetIf(u6, "group_type", _extract_group_type(text))
        u8 == SetIf(u7, "group_size", _extract_group_size(text))
    IN SetIf(u8, "mood", _extract_mood(text))

\* first truthy value of a or b or c
Or3(a, b, c) == IF Truthy(a) THEN a ELSE IF Truthy(b) THEN b ELSE c
CardTitle(card) == PyStr(Or3(Get(card, "title"), Get(card, "id"), S(<<"this", "experience">>)))
CardId(card) == PyStr(Or3(Get(card, "id"), S(CardTitle(card)), S(CardTitle(card))))

\* card updates that file every action under the list of additions
CardUpdates_adding(action_type, card) ==
    LET key == IF action_type \in {<<"like_activity">>, <<"unlike_activity">>}
               THEN "liked_cards_add" ELSE "saved_cards_add"
    IN [NoUpdates EXCEPT ![key] = L(<<CardId(card)>>), !["activity_catalog"] = L(<<CardId(card)>>)]
\* the updates a card action yields: one list holding the card id, plus the catalog entry
CardUpdates(action_type, card) ==
    LET key == CASE action_type = <<"like_activity">> -> "liked_cards_add"
                 [] action_type = <<"save_activity">> -> "saved_cards_add"
                 [] action_type = <<"unlike_activity">> -> "liked_cards_remove"
                 [] OTHER -> "saved_cards_remove"
    IN [NoUpdates EXCEPT ![key] = L(<<CardId(card)>>), !["activity_catalog"] = L(<<CardId(card)>>)]

CardMessage(action_type, card) ==
    CASE action_type = <<"like_activity">> -> <<"Liked">> \o CardTitle(card)
      [] action_type = <<"save_activity">> -> <<"Saved">> \o CardTitle(card)
      [] action_type = <<"unlike_activity">> -> <<"Removed", "like", "from">> \o CardTitle(card)
      [] OTHER -> <<"Removed">> \o CardTitle(card) \o <<"from", "saved", "picks">>

NoCard == [id |-> Absent, title |-> Absent]

\* json.loads(action_json), or the message fallback when the text is not JSON
Payload(action) ==
    IF action.json THEN action
    ELSE [json |-> TRUE, type |-> S(<<"message">>), text |-> S(action.raw), card |-> NoCard,
          raw |-> <<>>]

\* evaluate x once and hand its value to F
Bind(x, F(_)) == CHOOSE r \in {F(v) : v \in {x}} : TRUE

ActionType(payload) ==
    IF Truthy(Get(payload, "type")) THEN PyStr(payload.type) ELSE <<"message">>
IsCardAction(action_type) == \E a \in CardActions : action_type = <<a>>
MessageText(payload) == Strip(PyStr(GetOr(payload, "text", S(<<>>))))

ContextUpdates(payload) ==
    IF ActionType(payload) = <<"message">> THEN MessageUpdates(MessageText(payload))
    ELSE IF IsCardAction(ActionType(payload)) THEN CardUpdates(ActionType(payload), payload.card)
    ELSE NoUpdates

UserMessage(payload) ==
    IF ActionType(payload) = <<"message">>
    THEN (IF MessageText(payload) # <<>> THEN MessageText(payload)
          ELSE <<"Sharing", "more", "trip", "details.">>)
    ELSE IF IsCardAction(ActionType(payload)) THEN CardMessage(ActionType(payload), payload.card)
    ELSE <<"Noted.">>

\* the ListenerResult built from the updates and the merged context
ListenerResult(payload, pending, context_updates, merged_context) ==
    Bind(SelectSeq(pending, LAMBDA f : _has_field(merged_context, f)),
         LAMBDA resolved_fields :
            [status |-> "returned", action_type |-> ActionType(payload),
             user_message |-> UserMessage(payload),
             context_updates |-> context_updates,
             missing_context |-> _detect_missing_fields(merged_context, pending, resolved_fields),
             resolved_fields |-> resolved_fields,
             trigger_planning |->
                ActionType(payload) \in {<<"like_activity">>, <<"save_activity">>},
             merged |-> merged_context])

\* json.loads gave a value that is not a mapping (a number, null, a list, a
\* string): payload.get raises AttributeError
PayloadRaises(action) == action.json /\ action.raw # <<>>

\* Listener.run: the result record, with the merged context it was computed on
ListenerRun(action, context, pending_fields) ==
    IF PayloadRaises(action)
    THEN [status |-> "raised", action_type |-> <<>>, user_message |-> <<>>,
          context_updates |-> NoUpdates, missing_context |-> <<>>, resolved_fields |-> <<>>,
          trigger_planning |-> FALSE, merged |-> context]
    ELSE
    Bind(ContextUpdates(Payload(action)), LAMBDA context_updates :
        IF MergeRaises(context, context_updates)
        THEN [status |-> "raised", action_type |-> ActionType(Payload(action)),
              user_message |-> UserMessage(Payload(action)),
              context_updates |-> context_updates, missing_context |-> <<>>,
              resolved_fields |-> <<>>, trigger_planning |-> FALSE, merged |-> context]
        ELSE Bind(_merge_context(context, context_updates), LAMBDA merged_context :
                ListenerResult(Payload(action), pending_fields, context_updates, merged_context)))

\* ------------------------------------------------------- Readiness Gate
\* a value that is a text with something other than whitespace in it
Present(v) == v.t = "str" /\ Strip(v.s) # <<>>

\* a required field resolves against the conversation state
FieldResolved(state, field) ==
    CASE field = "destination" -> Present(state["destination"])
      [] field = "timing" ->
            \/ Truthy(state["start_date"]) /\ Truthy(state["end_date"])
            \/ Truthy(state["flexible_months"])
            \/ Present(state["timing_note"])
      [] field = "vibe" -> state["vibe"].t = "list" /\ state["vibe"].s # <<>>
      [] field = "travel_pace" ->
            state["travel_pace"].t = "str" /\ Strip(state["travel_pace"].s) \in _PACE_OPTIONS
      [] field = "budget" ->
            state["budget"].t = "str" /\ Strip(state["budget"].s) \in _BUDGET_OPTIONS
      [] field = "group" ->
            \/ Present(state["group_type"])
            \/ _coerce_positive_int(state["group_size"]).t = "int"
      [] OTHER -> FALSE

ready_for_gallery(state) ==
    \A k \in 1..Len(_required_fields) : FieldResolved(state, _required_fields[k])

\* ------------------------------------------------------ Trip Brief Memory
_clean_text(value) ==
    CASE value.t = "str" -> IF Strip(value.s) # <<>> THEN S(Strip(value.s)) ELSE NoneV
      [] value.t \in {"none", "absent"} -> NoneV
      [] OTHER -> IF Strip(PyStr(value)) # <<>> THEN S(Strip(PyStr(value))) ELSE NoneV

_OCCASION_KEYWORDS == <<"anniversary", "honeymoon", "birthday", "proposal", "babymoon">>
_MOOD_TONES ==
    << <<<<"burned_out">>, <<"soothing">>>>, <<<<"celebration">>, <<"celebratory">>>>,
       <<<<"peaceful">>, <<"calm">>>> >>

BriefKeys ==
    {"destination", "group_type", "group_size", "travel_pace", "budget", "vibes", "mood",
     "tone", "occasion"}
\* TripBrief(): every field None, no vibes
EmptyBrief == [k \in BriefKeys |-> IF k = "vibes" THEN L(<<>>) ELSE NoneV]

LowerText(s) == [i \in 1..Len(s) |-> Lower(s[i])]

\* the vibes of the state: cleaned, without case-insensitive repeats, in order
RECURSIVE CleanVibes(_, _, _)
CleanVibes(raw, seen, vibes) ==
    IF raw = <<>> THEN vibes
    ELSE LET cleaned == _clean_text(S(<<Head(raw)>>))
         IN IF cleaned.t = "str" /\ Lower(Head(raw)) \notin seen
            THEN CleanVibes(Tail(raw), seen \cup {Lower(Head(raw))}, Append(vibes, Head(raw)))
            ELSE CleanVibes(Tail(raw), seen, vibes)

\* the text scanned for occasion keywords: the truthy notes and timing_note, lower-cased
NoteText(state) ==
    LowerText((IF Truthy(Get(state, "notes")) THEN PyStr(state["notes"]) ELSE <<>>)
              \o (IF Truthy(Get(state, "timing_note")) THEN PyStr(state["timing_note"]) ELSE <<>>))

ScannedOccasion(state) ==
    LET hits == {k \in 1..Len(_OCCASION_KEYWORDS) : Occurs(<<_OCCASION_KEYWORDS[k]>>, NoteText(state))}
    IN IF hits = {} THEN NoneV ELSE S(<<_OCCASION_KEYWORDS[Min(hits)]>>)

\* _MOOD_TONES.get(mood.lower())
MoodTone(mood) ==
    LET hits == {k \in 1..Len(_MOOD_TONES) : _MOOD_TONES[k][1] = LowerText(mood.s)}
    IN IF hits = {} THEN NoneV ELSE S(_MOOD_TONES[Min(hits)][2])

\* a or b
Or2(a, b) == IF Truthy(a) THEN a ELSE b

\* TripBriefMemory.update: the brief that replaces the held one
update(brief, state) ==
    LET mood == _clean_text(Get(state, "mood"))
        tone0 == _clean_text(Get(state, "tone"))
        raw_vibes == Get(state, "vibe")
        vibes == IF raw_vibes.t = "list" THEN L(CleanVibes(raw_vibes.s, {}, <<>>)) ELSE L(<<>>)
        occasion0 == _clean_text(Get(state, "occasion"))
        occasion == IF ~Truthy(occasion0) THEN ScannedOccasion(state) ELSE occasion0
        tone == IF ~Truthy(tone0) /\ Truthy(mood) THEN MoodTone(mood) ELSE tone0
    IN [destination |-> Or2(_clean_text(Get(state, "destination")), brief["destination"]),
        group_type |-> Or2(_clean_text(Get(state, "group_type")), brief["group_type"]),
        group_size |-> Or2(_coerce_positive_int(Get(state, "group_size")), brief["group_size"]),
        travel_pace |-> Or2(_clean_text(Get(state, "travel_pace")), brief["travel_pace"]),
        budget |-> Or2(_clean_text(Get(state, "budget")), brief["budget"]),
        vibes |-> Or2(vibes, brief["vibes"]),
        mood |-> Or2(mood, brief["mood"]),
        tone |-> Or2(tone, brief["tone"]),
        occasion |-> Or2(occasion, brief["occasion"])]

\* ---------------------------------------------------------- trip pipeline
\* A TripIntent is [destination, notes]; an Itinerary is [destination, notes];
\* the other fields of both stay at their defaults.  An optional value is <<>>
\* (None, or an exception in place of a reply) or <<v>>.
Intent(destination, notes) == [destination |-> destination, notes |-> notes]

\* json.dumps(intent.model_dump(mode="json"), sort_keys=True): the field values
\* in key order
_cache_key(intent) == <<intent.destination, intent.notes>>

\* _RESEARCH_CACHE.get(key), as the set of entries stored under the key
CacheGet(cache, key) == {e[2] : e \in {e \in cache : e[1] = key}}
\* _RESEARCH_CACHE[key] = corpus
CacheSet(cache, key, corpus) == {e \in cache : e[1] # key} \cup {<<key, corpus>>}

\* one invocation of a stage's agent (or a cache lookup), with what it returned
Invocation(stage, how, args, out) == [stage |-> stage, how |-> how, args |-> args, out |-> out]

\* Each agent's run, given the reply of the generation stage (<<>>: it raised)
IntakeAgent_run(free_text, reply) == IF free_text = <<>> THEN <<>> ELSE reply
ResearcherAgent_run(trip_intent, reply) == IF trip_intent.destination = <<>> THEN <<>> ELSE reply
TasteAgent_run(trip_intent, corpus, reply) == reply
\* PlannerAgent.run returning the validated itinerary as the generation stage
\* gave it
PlannerAgent_run_unfilled(trip_intent, taste_profile, corpus, reply) == reply

PlannerAgent_run(trip_intent, taste_profile, corpus, reply) ==
    IF reply = <<>> THEN <<>>
    ELSE IF reply[1].destination = <<>>
         THEN <<[reply[1] EXCEPT !.destination = trip_intent.destination]>>
         ELSE reply
SummaryAgent_run(itinerary, reply) == reply

\* Corpus objects live in a heap, a sequence indexed by object identity; a
\* corpus value is [items, attached], attached once Place records were put on
\* its items.
\* model_copy returning the object itself instead of a copy
model_copy_same(heap, obj) == [heap |-> heap, obj |-> obj]
\* corpus.model_copy(deep=True): a new object holding an equal value
model_copy(heap, obj) == [heap |-> Append(heap, heap[obj]), obj |-> Len(heap) + 1]

\* the stage helpers: what each returns (out), whether it raised, and the
\* invocations it made
\* _run_intake_if_needed without the strip of the notes
_run_intake_unstripped(intent, reply) ==
    IF intent.destination # <<>>
    THEN [raised |-> "", out |-> <<intent>>, calls |-> <<>>]
    ELSE LET free_text == IF Truthy(intent.notes) THEN intent.notes.s ELSE <<>>
         IN IF free_text = <<>>
            THEN [raised |-> "ValueError", out |-> <<>>, calls |-> <<>>]
            ELSE LET structured == IntakeAgent_run(free_text, reply)
                 IN [raised |-> IF structured = <<>> THEN "intake" ELSE "",
                     out |-> structured,
                     calls |-> <<Invocation("intake", "agent", <<free_text>>, structured)>>]

_run_intake_if_needed(intent, reply) ==
    IF intent.destination # <<>>
    THEN [raised |-> "", out |-> <<intent>>, calls |-> <<>>]
    ELSE LET free_text == IF Truthy(intent.notes) THEN Strip(intent.notes.s) ELSE <<>>
         IN IF free_text = <<>>
            THEN [raised |-> "ValueError", out |-> <<>>, calls |-> <<>>]
            ELSE LET structured == IntakeAgent_run(free_text, reply)
                 IN [raised |-> IF structured = <<>> THEN "intake" ELSE "",
                     out |-> structured,
                     calls |-> <<Invocation("intake", "agent", <<free_text>>, structured)>>]

\* _run_research without the store of a fresh corpus
_run_research_unstored(cache, trip_intent, reply) ==
    LET key == _cache_key(trip_intent)
        cached == CacheGet(cache, key)
    IN IF cached # {}
       THEN LET corpus == CHOOSE c \in cached : TRUE
            IN [raised |-> "", out |-> <<corpus>>, cache |-> cache,
                calls |-> <<Invocation("research", "cache", <<trip_intent>>, <<corpus>>)>>]
       ELSE LET corpus == ResearcherAgent_run(trip_intent, reply)
            IN [raised |-> IF corpus = <<>> THEN "research" ELSE "",
                out |-> corpus,
                cache |-> cache,
                calls |-> <<Invocation("research", "agent", <<trip_intent>>, corpus)>>]

\* _run_research calling the researcher and storing its corpus on a hit too
_run_research_overwriting(cache, trip_intent, reply) ==
    LET key == _cache_key(trip_intent)
        corpus == ResearcherAgent_run(trip_intent, reply)
    IN [raised |-> IF corpus = <<>> THEN "research" ELSE "",
        out |-> corpus,
        cache |-> IF corpus = <<>> THEN cache ELSE CacheSet(cache, key, corpus[1]),
        calls |-> <<Invocation("research", "agent", <<trip_intent>>, corpus)>>]

_run_research(cache, trip_intent, reply) ==
    LET key == _cache_key(trip_intent)
        cached == CacheGet(cache, key)
    IN IF cached # {}
       THEN LET corpus == CHOOSE c \in cached : TRUE
            IN [raised |-> "", out |-> <<corpus>>, cache |-> cache,
                calls |-> <<Invocation("research", "cache", <<trip_intent>>, <<corpus>>)>>]
       ELSE LET corpus == ResearcherAgent_run(trip_intent, reply)
            IN [raised |-> IF corpus = <<>> THEN "research" ELSE "",
                out |-> corpus,
                cache |-> IF corpus = <<>> THEN cache ELSE CacheSet(cache, key, corpus[1]),
                calls |-> <<Invocation("research", "agent", <<trip_intent>>, corpus)>>]

_run_taste(trip_intent, corpus, reply) ==
    LET taste_profile == TasteAgent_run(trip_intent, corpus, reply)
    IN [raised |-> IF taste_profile = <<>> THEN "taste" ELSE "",
        out |-> taste_profile,
        calls |-> <<Invocation("taste", "agent", <<trip_intent, corpus>>, taste_profile)>>]

\* _run_planner handing the planner its last two arguments in the wrong order
_run_planner_swapped(trip_intent, taste_profile, corpus, reply) ==
    LET itinerary == PlannerAgent_run(trip_intent, corpus, taste_profile, reply)
    IN [raised |-> IF itinerary = <<>> THEN "planner" ELSE "",
        out |-> itinerary,
        calls |-> <<Invocation("planner", "agent", <<trip_intent, corpus, taste_profile>>, itinerary)>>]

_run_planner(trip_intent, taste_profile, corpus, reply) ==
    LET itinerary == PlannerAgent_run(trip_intent, taste_profile, corpus, reply)
    IN [raised |-> IF itinerary = <<>> THEN "planner" ELSE "",
        out |-> itinerary,
        calls |-> <<Invocation("planner", "agent", <<trip_intent, taste_profile, corpus>>, itinerary)>>]

\* _run_summary catching the agent's error and returning an empty summary
_run_summary_swallowed(itinerary, reply) ==
    LET summary_html == SummaryAgent_run(itinerary, reply)
    IN [raised |-> "",
        out |-> IF summary_html = <<>> THEN <<<<>>>> ELSE summary_html,
        calls |-> <<Invocation("summary", "agent", <<itinerary>>, summary_html)>>]

_run_summary(itinerary, reply) ==
    LET summary_html == SummaryAgent_run(itinerary, reply)
    IN [raised |-> IF summary_html = <<>> THEN "summary" ELSE "",
        out |-> summary_html,
        calls |-> <<Invocation("summary", "agent", <<itinerary>>, summary_html)>>]

\* run_trip_pipeline's last lines: the summary fills empty itinerary notes
WithSummary(itinerary, summary_html) ==
    IF summary_html # <<>> /\ ~Truthy(itinerary.notes)
    THEN [itinerary EXCEPT !.notes = S(summary_html)]
    ELSE itinerary

\* the order in which run_trip_pipeline calls the stage helpers
StageAfter(stage) ==
    CASE stage = "intake" -> "research"
      [] stage = "research" -> "taste"
      [] stage = "taste" -> "planner"
      [] stage = "planner" -> "summary"
      [] OTHER -> "returned"

\* ------------------------------------------------------------------ Refiner
\* A DayPlan is [label, date, events]; an event is [place_id, place], each
\* <<>> (None) or <<v>>; a Place is [place_id, name].
Place(place_id, name) == [place_id |-> place_id, name |-> name]
ItineraryEvent(place_id, place) == [place_id |-> place_id, place |-> place]
Day(label, date, events) == [label |-> label, date |-> date, events |-> events]
\* DayPlan()
DayPlan == Day(NoneV, NoneV, <<>>)
PlaceIds == {"p1", "p2"}

\* while len(days) <= preferred_index: days.append(DayPlan())
RECURSIVE Pad(_, _)
Pad(days, preferred_index) ==
    IF Len(days) <= preferred_index THEN Pad(Append(days, DayPlan), preferred_index) ELSE days

\* the first day the loop of ensure_consistency replaces (0: none)
FirstMatchingDay(days, updated_day) ==
    LET hits == {k \in 1..Len(days) :
                    \/ Truthy(days[k].date) /\ Truthy(updated_day.date)
                          /\ days[k].date = updated_day.date
                    \/ Truthy(days[k].label) /\ Truthy(updated_day.label)
                          /\ days[k].label = updated_day.label}
    IN IF hits = {} THEN 0 ELSE Min(hits)

\* ensure_consistency without an index: the first day matching by date or by
\* label is replaced, else the day is appended
PlaceByMatch(days, updated_day) ==
    LET k == FirstMatchingDay(days, updated_day)
    IN IF k > 0
       THEN [days |-> [days EXCEPT ![k] = updated_day], at |-> k]
       ELSE [days |-> Append(days, updated_day), at |-> Len(days) + 1]

\* ensure_consistency that appends when the index does not exist yet
ensure_consistency_appending(days, updated_day, preferred_index) ==
    IF preferred_index = <<>> THEN PlaceByMatch(days, updated_day)
    ELSE IF preferred_index[1] < Len(days)
    THEN [days |-> [days EXCEPT ![preferred_index[1] + 1] = updated_day],
          at |-> preferred_index[1] + 1]
    ELSE [days |-> Append(days, updated_day), at |-> Len(days) + 1]

\* ensure_consistency that inserts the day at the index instead of overwriting
ensure_consistency_inserting(days, updated_day, preferred_index) ==
    IF preferred_index = <<>> THEN PlaceByMatch(days, updated_day)
    ELSE LET idx == preferred_index[1]
             padded == Pad(days, idx - 1)
         IN [days |-> SubSeq(padded, 1, idx) \o <<updated_day>>
                        \o SubSeq(padded, idx + 1, Len(padded)),
             at |-> idx + 1]

\* RefinerResponse.ensure_consistency: the days afterwards and the (one-based)
\* position the updated day was put at; preferred_index is <<>> for None
ensure_consistency(days, updated_day, preferred_index) ==
    IF preferred_index # <<>>
    THEN LET padded == Pad(days, preferred_index[1])
         IN [days |-> [padded EXCEPT ![preferred_index[1] + 1] = updated_day],
             at |-> preferred_index[1] + 1]
    ELSE PlaceByMatch(days, updated_day)

\* Itinerary.all_events
RECURSIVE all_events(_)
all_events(days) == IF days = <<>> THEN <<>> ELSE Head(days).events \o all_events(Tail(days))

\* RefinerAgent._build_place_lookup: a later event's place replaces an earlier one
_build_place_lookup(request_days, response_days) ==
    LET events == all_events(request_days) \o all_events(response_days)
    IN [id \in PlaceIds |->
          LET hits == {k \in 1..Len(events) :
                          events[k].place # <<>> /\ events[k].place[1].place_id = id}
          IN IF hits = {} THEN <<>> ELSE events[Max(hits)].place]

NoPlaces == [id \in PlaceIds |-> <<>>]
\* lookup.update(additional_places)
LookupUpdate(lookup, additional_places) ==
    [id \in PlaceIds |-> IF additional_places[id] # <<>> THEN additional_places[id] ELSE lookup[id]]

\* attach_places(place_lookup=..., itinerary=...)
attach_places(place_lookup, days) ==
    [k \in 1..Len(days) |->
        [days[k] EXCEPT !.events =
            [j \in 1..Len(days[k].events) |->
                LET event == days[k].events[j]
                IN IF event.place = <<>> /\ event.place_id # <<>>
                      /\ place_lookup[event.place_id[1]] # <<>>
                   THEN [event EXCEPT !.place = place_lookup[event.place_id[1]]]
                   ELSE event]]]

IdleRefiner ==
    [status |-> "idle", generated |-> <<>>, generated_day |-> DayPlan, placed |-> <<>>,
     at |-> 0, days |-> <<>>, updated_day |-> DayPlan]

\* RefinerAgent.run, given the generation stage's reply (<<>>: it raised).  The
\* returned updated_day is the object standing at the placed position.
RefinerAgent_run(request, reply) ==
    IF reply = <<>> THEN [IdleRefiner EXCEPT !.status = "raised"]
    ELSE LET response == reply[1]
             placed == ensure_consistency(response.days, response.updated_day,
                                          <<request.day_index>>)
             lookup == LookupUpdate(_build_place_lookup(request.days, placed.days),
                                    request.additional_places)
             days == attach_places(lookup, placed.days)
         IN [status |-> "returned", generated |-> response.days,
             generated_day |-> response.updated_day, placed |-> placed.days,
             at |-> placed.at, days |-> days, updated_day |-> days[placed.at]]

\* ----------------------------------------------------------------- llm_json
\* What one chat completion can come to: the transport fails, the HTTP body is
\* not JSON, the response has no choices, the message has no content, the
\* content is not a string, the content is not JSON, or the content is JSON.
ChatOutcomes ==
    {"transport_error", "body_not_json", "no_choices", "no_content", "content_not_str",
     "content_not_json", "json"}

\* LLMClient.chat: the exception it raises ("" when it returns the response)
chat(outcome) ==
    CASE outcome = "transport_error" -> "HTTPError"
      [] outcome = "body_not_json" -> "JSONDecodeError"
      [] OTHER -> ""
\* LLMClient.extract_content
extract_content(outcome) == IF outcome \in {"no_choices", "no_content"} THEN "ValueError" ELSE ""
\* json.loads(content)
json_loads(outcome) ==
    CASE outcome = "content_not_str" -> "TypeError"
      [] outcome = "content_not_json" -> "JSONDecodeError"
      [] OTHER -> ""
\* chat, extract_content, json.loads in sequence: the first exception raised
Attempt(outcome) ==
    IF chat(outcome) # "" THEN chat(outcome)
    ELSE IF extract_content(outcome) # "" THEN extract_content(outcome)
    ELSE json_loads(outcome)

\* the keyword arguments of a chat call
ChatCall(args, force_json, outcome) ==
    [prompt |-> args.prompt, system |-> args.system, model |-> args.model, stop |-> args.stop,
     prompt_version |-> args.prompt_version, force_json |-> force_json, outcome |-> outcome]

\* an except clause that catches every ValueError
CaughtAsValueError(error) == error \in {"JSONDecodeError", "ValueError"}
\* except json.JSONDecodeError
Caught(error) == error = "JSONDecodeError"

\* ---------------------------------------------------------------- Clarifier
\* Clarifier._FIELD_PROMPTS; a message is the sequence of its prompts and of
\* the separators joining them
_FIELD_PROMPTS ==
    [destination |-> "What's the headline city or region you're plotting?",
     timing |-> "When should this adventure take place? Share dates or a rough window.",
     vibe |-> "Paint the vibe: nightlife, nature, culture? Give me a few keywords.",
     travel_pace |-> "Should days feel laid back, balanced, or all-out?",
     budget |-> "What budget lane are we in: shoestring, moderate, or splurge?",
     group |-> "Who's coming along and how big is the crew?"]
\* separator.join(lines)
RECURSIVE JoinWith(_, _)
JoinWith(lines, separator) ==
    IF lines = <<>> THEN <<>>
    ELSE IF Len(lines) = 1 THEN lines[1]
    ELSE lines[1] \o <<separator>> \o JoinWith(Tail(lines), separator)
\* a run that joins every field's prompt, the first included, into the second block
Clarifier_run_repeating(missing_fields) ==
    LET fields == SelectSeq(missing_fields, LAMBDA field : field \in DOMAIN _FIELD_PROMPTS)
    IN IF fields = <<>>
       THEN [status |-> "returned", fields |-> <<>>, message |-> <<"Tell me a little more.">>]
       ELSE [status |-> "returned", fields |-> fields,
             message |-> JoinWith(
                 << <<_FIELD_PROMPTS[fields[1]]>>,
                    JoinWith([i \in 1..Len(fields) |-> <<_FIELD_PROMPTS[fields[i]]>>], ", ") >>,
                 "/n/n")]
\* Clarifier.run (the context argument is not read)
Clarifier_run(missing_fields) ==
    LET fields == SelectSeq(missing_fields, LAMBDA field : field \in DOMAIN _FIELD_PROMPTS)
        prompt_lines ==
            IF Len(fields) > 1
            THEN << <<_FIELD_PROMPTS[fields[1]]>>,
                    JoinWith([i \in 1..(Len(fields) - 1) |-> <<_FIELD_PROMPTS[fields[i + 1]]>>],
                             ", ") >>
            ELSE IF fields # <<>> THEN << <<_FIELD_PROMPTS[fields[1]]>> >>
            ELSE <<>>
    IN IF fields = <<>>
       THEN [status |-> "returned", fields |-> <<>>, message |-> <<"Tell me a little more.">>]
       ELSE [status |-> "returned", fields |-> fields, message |-> JoinWith(prompt_lines, "/n/n")]

\* ------------------------------------------------- schema normalisation
\* Texts of the research payloads are sequences of characters.  A payload
\* entry is Absent (no such key), NoneV or S(text); a list-valued entry holds
\* its texts in s: OneText(text) is a single string, L(texts) a list.
Chars == {"a", "b", "B", "1", WS, "!", ",", "-"}
\* [a-z0-9]
SlugChars == {"a", "b", "1"}
LowerChar(c) == IF c = "B" THEN "b" ELSE c
OneText(text) == [t |-> "str", s |-> <<text>>, n |-> 0]
Has(v) == v.t # "absent"

RECURSIVE DropRun(_, _)
DropRun(s, keep) == IF s # <<>> /\ Head(s) \notin keep THEN DropRun(Tail(s), keep) ELSE s
\* re.sub: every run of characters outside keep becomes one hyphen
RECURSIVE ReplaceRuns(_, _)
ReplaceRuns(s, keep) ==
    IF s = <<>> THEN <<>>
    ELSE IF Head(s) \in keep THEN <<Head(s)>> \o ReplaceRuns(Tail(s), keep)
    ELSE <<"-">> \o ReplaceRuns(DropRun(Tail(s), keep), keep)
RECURSIVE StripHyphens(_)
StripHyphens(s) ==
    IF s # <<>> /\ Head(s) = "-" THEN StripHyphens(Tail(s))
    ELSE IF s # <<>> /\ s[Len(s)] = "-" THEN StripHyphens(SubSeq(s, 1, Len(s) - 1))
    ELSE s
_slugify(value) ==
    LET lowered == [i \in 1..Len(Strip(value)) |-> LowerChar(Strip(value)[i])]
    IN StripHyphens(ReplaceRuns(ReplaceRuns(lowered, SlugChars), Chars \ {"-"}))

\* re.split(r"[\n,]+", value)
RECURSIVE SplitOnCommas(_, _)
SplitOnCommas(s, piece) ==
    IF s = <<>> THEN <<piece>>
    ELSE IF Head(s) \in {",", NL} THEN <<piece>> \o SplitOnCommas(Tail(s), <<>>)
    ELSE SplitOnCommas(Tail(s), Append(piece, Head(s)))
\* _ensure_list, for one key: a string becomes the list of its non-blank parts
_ensure_list(value) ==
    IF value.t = "str"
    THEN LET parts == SplitOnCommas(value.s[1], <<>>)
             stripped == [i \in 1..Len(parts) |-> Strip(parts[i])]
         IN L(SelectSeq(stripped, LAMBDA part : part # <<>>))
    ELSE value
\* " ".join(slug_parts)
RECURSIVE Join(_)
Join(parts) ==
    IF Len(parts) <= 1 THEN (IF parts = <<>> THEN <<>> ELSE parts[1])
    ELSE parts[1] \o <<WS>> \o Join(Tail(parts))

\* the keys of a nested place the normaliser reads or writes
NoPlaceData == [place_id |-> Absent, name |-> Absent, address |-> Absent, formatted_address |-> Absent]
\* if source_key in payload and payload[source_key]:
\*     place_data.setdefault(target_key, payload.pop(source_key))
MoveField(st, source_key, target_key) ==
    IF Has(st.payload[source_key]) /\ Truthy(st.payload[source_key])
    THEN [payload |-> [st.payload EXCEPT ![source_key] = Absent],
          place_data |-> IF Has(st.place_data[target_key]) THEN st.place_data
                         ELSE [st.place_data EXCEPT ![target_key] = st.payload[source_key]]]
    ELSE st
\* the identifier synthesised for a payload without one (<<>>: none)
CandidateId(payload) ==
    LET place == IF payload.place = "dict" THEN payload.pl ELSE NoPlaceData
        from_place ==
            (IF Truthy(place.name) THEN <<place.name.s>> ELSE <<>>)
            \o (IF Truthy(place.formatted_address) THEN <<place.formatted_address.s>> ELSE <<>>)
        summary == IF Truthy(payload.summary) THEN payload.summary ELSE payload.description
        with_summary ==
            IF Truthy(summary) /\ from_place = <<>> THEN <<summary.s>> ELSE from_place
        highlights ==
            IF payload.highlights.t = "list"
            THEN SelectSeq(payload.highlights.s, LAMBDA item : Strip(item) # <<>>) ELSE <<>>
        slug_parts ==
            IF with_summary = <<>> /\ highlights # <<>> THEN <<highlights[1]>> ELSE with_summary
    IN IF Truthy(place.place_id) THEN <<place.place_id>>
       ELSE IF slug_parts # <<>> /\ _slugify(Join(slug_parts)) # <<>>
       THEN <<S(<<"generated-">> \o _slugify(Join(slug_parts)))>>
       ELSE <<>>

\* ResearchItem._coerce_llm_variants
_coerce_llm_variants(data) ==
    IF ~data.dict THEN data
    ELSE LET listed == [data EXCEPT !.highlights = _ensure_list(@), !.tags = _ensure_list(@)]
             moved == MoveField(MoveField(MoveField(
                          [payload |-> listed,
                           place_data |-> IF listed.place = "dict" THEN listed.pl ELSE NoPlaceData],
                          "name", "name"), "address", "formatted_address"),
                          "formatted_address", "formatted_address")
             place_data ==
                 IF Has(moved.place_data.address) /\ ~Has(moved.place_data.formatted_address)
                 THEN [moved.place_data EXCEPT !.formatted_address = moved.place_data.address,
                                               !.address = Absent]
                 ELSE moved.place_data
             payload ==
                 IF place_data # NoPlaceData
                 THEN [moved.payload EXCEPT !.place = "dict", !.pl = place_data]
                 ELSE moved.payload
             candidate_id == CandidateId(payload)
         IN IF ~Truthy(payload.place_id)
            THEN IF candidate_id # <<>>
                 THEN [payload EXCEPT
                         !.place_id = candidate_id[1],
                         !.pl = IF payload.place = "dict" /\ ~Truthy(payload.pl.place_id)
                                THEN [@ EXCEPT !.place_id = candidate_id[1]] ELSE @]
                 ELSE payload
            ELSE IF payload.place = "dict" /\ ~Truthy(payload.pl.place_id)
            THEN [payload EXCEPT !.pl = [@ EXCEPT !.place_id = payload.place_id]]
            ELSE payload

\* the bucket families of a research corpus, canonical key first
Buckets ==
    << <<"lodgings", "lodging", "stays">>, <<"dining", "restaurants", "food">>,
       <<"experiences", "activities", "things_to_do">> >>
CorpusKeys ==
    {"lodgings", "lodging", "stays", "dining", "restaurants", "food", "experiences",
     "activities", "things_to_do", "other"}
NoBucket == [t |-> "absent", items |-> <<>>]
\* a bucket normaliser that extends the canonical list instead of assigning it
_normalise_bucket_extending(payload, keys) ==
    LET present == {i \in 1..Len(keys) : payload[keys[i]].t # "absent"}
    IN IF present = {} THEN payload
       ELSE LET raw_items == payload[keys[Min(present)]]
                normalised_items == IF raw_items.t = "none" THEN <<>> ELSE raw_items.items
                cleaned_items ==
                    [i \in 1..Len(normalised_items) |-> _coerce_llm_variants(normalised_items[i])]
            IN [key \in CorpusKeys |->
                  IF key = keys[1]
                  THEN [t |-> "list", items |-> payload[keys[1]].items \o cleaned_items]
                  ELSE IF InSeq(key, keys) THEN NoBucket
                  ELSE payload[key]]
\* _normalise_bucket: the first key present feeds the canonical key, as a list
\* of normalised items; the aliases are dropped
_normalise_bucket(payload, keys) ==
    LET present == {i \in 1..Len(keys) : payload[keys[i]].t # "absent"}
    IN IF present = {} THEN payload
       ELSE LET raw_items == payload[keys[Min(present)]]
                normalised_items == IF raw_items.t = "none" THEN <<>> ELSE raw_items.items
                cleaned_items ==
                    [i \in 1..Len(normalised_items) |-> _coerce_llm_variants(normalised_items[i])]
            IN [key \in CorpusKeys |->
                  IF key = keys[1] THEN [t |-> "list", items |-> cleaned_items]
                  ELSE IF InSeq(key, keys) THEN NoBucket
                  ELSE payload[key]]
\* ResearchCorpus._normalise_research_buckets
_normalise_research_buckets(data) ==
    _normalise_bucket(_normalise_bucket(_normalise_bucket(data, Buckets[1]), Buckets[2]),
                      Buckets[3])

\* an itinerary payload: a chain of single-key mappings (outermost first)
\* around an inner mapping; dict is FALSE for a value that is not a mapping.
\* candidate.get(key) is a mapping exactly when the outermost wrapper is key.
RECURSIVE UnwrapWhile(_, _)
UnwrapWhile(candidate, key) ==
    IF candidate.wrappers # <<>> /\ Head(candidate.wrappers) = key
    THEN UnwrapWhile([candidate EXCEPT !.wrappers = Tail(candidate.wrappers)], key)
    ELSE candidate
\* Itinerary._unwrap_common_wrappers
_unwrap_common_wrappers(data) ==
    IF ~data.dict THEN data
    ELSE UnwrapWhile(UnwrapWhile(data, "itinerary"), "trip")

\* the JSON values a response content can parse to, as far as validation looks
Payloads ==
    {[kind |-> "dict", destination |-> Absent],
     [kind |-> "dict", destination |-> S(<<"Kyoto">>)],
     [kind |-> "dict", destination |-> I(5)],
     [kind |-> "list", destination |-> Absent],
     [kind |-> "null", destination |-> Absent]}
\* the target types of the generation stages modelled here
Schemas == {"TripIntent", "ResearchCorpus"}
\* schema.model_validate(data): the validation detail ("" when the payload
\* validates).  TripIntent requires a string destination; every field of
\* ResearchCorpus has a default.
model_validate(schema, data) ==
    IF data.kind # "dict" THEN "Input should be a valid dictionary"
    ELSE IF schema # "TripIntent" THEN ""
    ELSE IF data.destination.t = "absent" THEN "destination: Field required"
    ELSE IF data.destination.t # "str" THEN "destination: Input should be a valid string"
    ELSE ""
\* a handler that lets the ValidationError through unwrapped
call_llm_and_validate_unwrapped(schema, data) ==
    IF model_validate(schema, data) = "" THEN [pc |-> "returned", error |-> "", message |-> <<>>]
    ELSE [pc |-> "raised", error |-> "ValidationError",
          message |-> <<model_validate(schema, data)>>]
\* call_llm_and_validate, after llm_json has returned data
call_llm_and_validate(schema, data) ==
    IF model_validate(schema, data) = "" THEN [pc |-> "returned", error |-> "", message |-> <<>>]
    ELSE [pc |-> "raised", error |-> "AgentExecutionError",
          message |-> <<"LLM response could not be validated as", schema,
                        model_validate(schema, data)>>]

\* ------------------------------------------------------------------ state
VARIABLES
    lctx,       \* Listener: the context mapping of the call
    lpending,   \* Listener: the pending_fields of the call
    lres,       \* Listener: the result of the last run
    laction,    \* Listener: the action of the last run
    lturn,      \* Listener: the turns of the chat session so far
    mbrief,     \* TripBriefMemory._brief
    mprev,      \* the brief held before the last update
    mstate,     \* the state handed to the last update
    mcount,     \* number of updates so far
    pcache,     \* _RESEARCH_CACHE: the set of <<key, corpus>> entries
    prun,       \* the run_trip_pipeline call in progress, or the last one
    plog,       \* the invocations that call has made, in order
    pcalls,     \* every call so far: its intent, research key and outcome
    pcleared,   \* clear_research_cache was called since the last call began
    rreq,       \* Refiner: the request (and the caller's additional places)
    rres,       \* Refiner: what the last call produced
    jargs,      \* llm_json: the arguments of the call
    jcalls,     \* llm_json: the chat calls made, in order
    jrun,       \* llm_json: where the call stands, and the error it raised
    vrun,       \* call_llm_and_validate: its schema, where it stands, what it raised
    nkind,      \* schema normalisation: what is normalised, an item or a corpus
    npasses,    \* the payload, followed by the result of each normalisation pass
    cfields,    \* Clarifier: the missing_fields of the call
    cres,       \* Clarifier: the prompt the call returned
    qcache,     \* concurrent sessions: _RESEARCH_CACHE, key to the object stored (0: none)
    qheap,      \* concurrent sessions: the corpus objects, by identity
    qruns,      \* concurrent sessions: each session's _run_research call and its corpus
    qlog        \* concurrent sessions: the _run_research calls that returned, in order

lvars == <<lctx, lpending, lres, laction, lturn>>
mvars == <<mbrief, mprev, mstate, mcount>>
pvars == <<pcache, prun, plog, pcalls, pcleared>>
rvars == <<rreq, rres>>
jvars == <<jargs, jcalls, jrun, vrun>>
nvars == <<nkind, npasses>>
cvars == <<cfields, cres>>
qvars == <<qcache, qheap, qruns, qlog>>
vars == <<lctx, lpending, lres, laction, lturn, mbrief, mprev, mstate, mcount,
          pcache, prun, plog, pcalls, pcleared, rreq, rres, jargs, jcalls, jrun, vrun, nkind, npasses,
          cfields, cres, qcache, qheap, qruns, qlog>>

\* ------------------------------------------------------- Listener inputs
Vocabulary == {"in", "Kyoto", "June", "Moderate", "couple", "nightlife"}
Texts == UNION {[1..k -> Vocabulary] : k \in 0..MaxWords}

Message(text) ==
    [json |-> TRUE, type |-> S(<<"message">>), text |-> text, card |-> NoCard, raw |-> <<>>]
Cards == {[id |-> S(<<"c1">>), title |-> S(<<"Tea">>)], [id |-> Absent, title |-> S(<<"Tea">>)], NoCard}
Actions ==
    {Message(S(t)) : t \in Texts}
    \cup {[json |-> FALSE, type |-> Absent, text |-> Absent, card |-> NoCard, raw |-> <<w>>] :
            w \in Vocabulary}
    \cup {[json |-> TRUE, type |-> S(<<a>>), text |-> Absent, card |-> c, raw |-> <<>>] :
            a \in CardActions, c \in Cards}
    \cup {[json |-> TRUE, type |-> Absent, text |-> S(<<"Kyoto">>), card |-> NoCard, raw |-> <<>>],
          [json |-> TRUE, type |-> S(<<"ping">>), text |-> Absent, card |-> NoCard, raw |-> <<>>]}
    \cup {[json |-> TRUE, type |-> Absent, text |-> Absent, card |-> NoCard, raw |-> <<w>>] :
            w \in {"5", "null"}}

EmptyContext == [k \in CtxKeys |-> Absent]
\* the ways the timing and the group entries of a conversation state are held
TimingChoices ==
    {[note |-> Absent, dates |-> NoneV, months |-> L(<<>>)],
     [note |-> NoneV, dates |-> NoneV, months |-> L(<<>>)],
     [note |-> S(<<"June">>), dates |-> NoneV, months |-> L(<<>>)],
     [note |-> NoneV, dates |-> S(<<"2025-06-01">>), months |-> L(<<>>)],
     [note |-> NoneV, dates |-> NoneV, months |-> L(<<"2025-06">>)]}
GroupChoices ==
    {[type |-> Absent, size |-> Absent], [type |-> NoneV, size |-> NoneV],
     [type |-> S(<<"Friends", "trip">>), size |-> NoneV], [type |-> NoneV, size |-> I(3)],
     [type |-> S(<<WS>>), size |-> S(<<"0">>)]}
\* every combination of held and missing fields, and every way of holding the
\* timing and the group entries next to otherwise complete states
Contexts ==
    {[EmptyContext EXCEPT
        !["destination"] = c[1], !["timing_note"] = c[2].note, !["start_date"] = c[2].dates,
        !["end_date"] = c[2].dates, !["flexible_months"] = c[2].months, !["vibe"] = c[3],
        !["travel_pace"] = c[4], !["budget"] = c[5], !["group_type"] = c[6].type,
        !["group_size"] = c[6].size, !["notes"] = S(<<>>)] :
        c \in {x \in {S(<<>>), S(<<"Tokyo">>)} \X TimingChoices
                      \X {L(<<>>), L(<<"Nightlife">>)} \X {NoneV, S(<<"Balanced">>)}
                      \X {NoneV, S(<<"Moderate">>)} \X GroupChoices :
                  \/ /\ x[2].note.t # "absent" /\ ~Truthy(x[2].dates) /\ ~Truthy(x[2].months)
                     /\ x[6].type.t # "absent" /\ x[6].size.t = "none"
                  \/ Truthy(x[1]) /\ Truthy(x[3]) /\ Truthy(x[4]) /\ Truthy(x[5])}}
PendingChoices == {<<>>, <<"timing", "group">>, <<"vibe", "foo", "vibe">>}

IdleResult ==
    [status |-> "idle", action_type |-> <<>>, user_message |-> <<>>,
     context_updates |-> NoUpdates, missing_context |-> <<>>, resolved_fields |-> <<>>,
     trigger_planning |-> FALSE, merged |-> EmptyContext]

NoAction == [json |-> FALSE, type |-> Absent, text |-> Absent, card |-> NoCard, raw |-> <<>>]
ListenerIdle ==
    /\ lctx = EmptyContext /\ lpending = <<>> /\ lres = IdleResult /\ laction = NoAction
    /\ lturn = 0
MemoryIdle == mbrief = EmptyBrief /\ mprev = EmptyBrief /\ mstate = EmptyContext /\ mcount = 0
IdleRun ==
    [pc |-> "idle", intent |-> Intent(<<>>, NoneV), structured |-> <<>>, corpus |-> <<>>,
     taste_profile |-> <<>>, itinerary |-> <<>>, summary_html |-> <<>>, result |-> <<>>,
     error |-> "", validated |-> <<>>]
PipelineIdle ==
    pcache = {} /\ prun = IdleRun /\ plog = <<>> /\ pcalls = <<>> /\ pcleared = FALSE
IdleRequest == [days |-> <<>>, day_index |-> 0, additional_places |-> NoPlaces]
RefinerIdle == rreq = IdleRequest /\ rres = IdleRefiner
IdleArgs ==
    [prompt |-> "p1", system |-> "s1", model |-> "m1", stop |-> <<>>, prompt_version |-> "v1"]
IdleValidate == [pc |-> "idle", schema |-> "", data |-> <<>>, error |-> "", message |-> <<>>]
SchemaIdle == nkind = "idle" /\ npasses = <<>>
IdlePrompt == [status |-> "idle", fields |-> <<>>, message |-> <<>>]
ClarifierIdle == cfields = <<>> /\ cres = IdlePrompt
ResearchIdle == qcache = <<>> /\ qheap = <<>> /\ qruns = <<>> /\ qlog = <<>>
LlmIdle ==
    /\ jargs = IdleArgs /\ jcalls = <<>> /\ jrun = [pc |-> "idle", error |-> ""]
    /\ vrun = IdleValidate

ListenerInit ==
    /\ lctx \in Contexts
    /\ lpending \in PendingChoices
    /\ lres = IdleResult
    /\ laction = NoAction
    /\ lturn = 0
    /\ MemoryIdle /\ PipelineIdle /\ RefinerIdle /\ LlmIdle /\ SchemaIdle /\ ClarifierIdle /\ ResearchIdle

\* one Listener.run call on the held context and pending fields
Run(action) ==
    /\ lres.status = "idle"
    /\ laction' = action
    /\ lres' = ListenerRun(action, lctx, lpending)
    /\ lctx' = ContextAfterMerge(lctx, lres'.context_updates)
    /\ UNCHANGED <<lpending, lturn>>
    /\ UNCHANGED <<mvars, pvars, rvars, jvars, nvars, cvars, qvars>>

ListenerNext == \E action \in Actions : Run(action)

SpecListener == ListenerInit /\ [][ListenerNext]_vars

\* ------------------------------------------------------------ chat session
\* A conversation: every turn hands the Listener the merged context and the
\* missing_context of the turn before; the first turn has no pending fields.
MaxTurns == 3
ChatContexts ==
    {EmptyContext,
     [EmptyContext EXCEPT !["destination"] = S(<<"Tokyo">>), !["group_size"] = I(3),
                          !["start_date"] = S(<<"2025-06-01">>),
                          !["end_date"] = S(<<"2025-06-01">>)],
     [EmptyContext EXCEPT !["vibe"] = L(<<"Nightlife">>), !["travel_pace"] = S(<<"Balanced">>),
                          !["budget"] = S(<<"Moderate">>), !["notes"] = S(<<>>)]}
ChatActions ==
    {Message(S(t)) : t \in {<<>>, <<"in", "Kyoto">>, <<"June", "Moderate">>,
                            <<"couple", "nightlife">>, <<"nightlife", "June">>}}
    \cup {[json |-> FALSE, type |-> Absent, text |-> Absent, card |-> NoCard, raw |-> <<"couple">>],
          [json |-> TRUE, type |-> S(<<"like_activity">>), text |-> Absent,
           card |-> [id |-> S(<<"c1">>), title |-> S(<<"Tea">>)], raw |-> <<>>],
          [json |-> TRUE, type |-> S(<<"ping">>), text |-> Absent, card |-> NoCard, raw |-> <<>>]}

ChatInit ==
    /\ lctx \in ChatContexts
    /\ lpending = <<>>
    /\ lres = IdleResult
    /\ laction = NoAction
    /\ lturn = 0
    /\ MemoryIdle /\ PipelineIdle /\ RefinerIdle /\ LlmIdle /\ SchemaIdle /\ ClarifierIdle
    /\ ResearchIdle

\* one turn: Listener.run on the context merged in the turn before and on the
\* fields that turn reported missing
Turn(action) ==
    /\ lres.status \in {"idle", "returned"}
    /\ lturn < MaxTurns
    /\ LET context == IF lres.status = "idle" THEN lctx ELSE lres.merged
           pending_fields == IF lres.status = "idle" THEN lpending ELSE lres.missing_context
       IN /\ lres' = ListenerRun(action, context, pending_fields)
          /\ lctx' = ContextAfterMerge(context, lres'.context_updates)
          /\ lpending' = pending_fields
    /\ laction' = action
    /\ lturn' = lturn + 1
    /\ UNCHANGED <<mvars, pvars, rvars, jvars, nvars, cvars, qvars>>

ChatNext == \E action \in ChatActions : Turn(action)

SpecChat == ChatInit /\ [][ChatNext]_vars


\* ------------------------------------------------------ memory session
MaxUpdates == 2

\* the entries a planner state may carry for the brief's fields
StateChoices ==
    {<<"destination", S(<<"Tokyo">>)>>, <<"destination", S(<<WS>>)>>,
     <<"group_size", I(3)>>, <<"group_size", I(0)>>, <<"group_size", S(<<"4">>)>>,
     <<"travel_pace", S(<<"Balanced">>)>>,
     <<"vibe", L(<<"Nightlife">>)>>, <<"vibe", L(<<"nightlife", "Foodie adventures">>)>>,
     <<"vibe", L(<<>>)>>,
     <<"mood", S(<<"peaceful">>)>>, <<"mood", S(<<"Celebration">>)>>,
     <<"tone", S(<<"playful">>)>>, <<"occasion", S(<<"proposal">>)>>,
     <<"notes", S(<<"birthday">>)>>, <<"notes", S(<<"anniversary", NL, "birthday">>)>>}
\* the pairs of keys a planner state sets together
PairedKeys ==
    {<<"mood", "tone">>, <<"notes", "occasion">>, <<"destination", "vibe">>,
     <<"group_size", "travel_pace">>}
\* planner states with one of those entries set, or two of paired keys
MemoryStates ==
    {[k \in CtxKeys |->
        IF k = a[1] THEN a[2] ELSE IF k = b[1] THEN b[2]
        ELSE IF k = "notes" THEN S(<<>>) ELSE NoneV] :
        <<a, b>> \in {c \in StateChoices \X StateChoices :
                        c[1] = c[2] \/ <<c[1][1], c[2][1]>> \in PairedKeys}}

MemoryInit ==
    MemoryIdle /\ ListenerIdle /\ PipelineIdle /\ RefinerIdle /\ LlmIdle /\ SchemaIdle /\ ClarifierIdle /\ ResearchIdle

\* one TripBriefMemory.update call
Update(state) ==
    /\ mcount < MaxUpdates
    /\ mprev' = mbrief
    /\ mstate' = state
    /\ mbrief' = update(mbrief, state)
    /\ mcount' = mcount + 1
    /\ UNCHANGED <<lvars, pvars, rvars, jvars, nvars, cvars, qvars>>

MemoryNext == \E state \in MemoryStates : Update(state)

SpecMemory == MemoryInit /\ [][MemoryNext]_vars

\* ------------------------------------------------------ pipeline session
MaxRuns == 2

Intents ==
    {Intent(<<"Kyoto">>, NoneV), Intent(<<"Kyoto">>, S(<<"Kyoto", "trip">>)),
     Intent(<<>>, S(<<WS, "Kyoto", "trip">>)), Intent(<<>>, NoneV), Intent(<<>>, S(<<>>)),
     Intent(<<>>, S(<<WS>>))}
\* what the generation stage may hand each agent; <<>> is a failure
IntakeReplies ==
    {<<>>, <<Intent(<<"Kyoto">>, NoneV)>>, <<Intent(<<"Tokyo">>, NoneV)>>,
     <<Intent(<<>>, NoneV)>>}
ResearchReplies == {<<>>, <<"corpusA">>, <<"corpusB">>}
TasteReplies == {<<>>, <<"profileA">>}
PlannerReplies ==
    {<<>>} \cup {<<[destination |-> d, notes |-> n]>> :
                    d \in {<<>>, <<"Osaka">>}, n \in {NoneV, S(<<"plan">>)}}
SummaryReplies == {<<>>, <<<<>>>>, <<<<"html">>>>}

PipelineInit ==
    PipelineIdle /\ ListenerIdle /\ MemoryIdle /\ RefinerIdle /\ LlmIdle /\ SchemaIdle /\ ClarifierIdle /\ ResearchIdle

\* the stage helper returned r: store its value and move on, or abort the run
Advance(run, r, field) ==
    IF r.raised # ""
    THEN [run EXCEPT !.pc = "raised", !.error = r.raised]
    ELSE [run EXCEPT !.pc = StageAfter(run.pc), ![field] = r.out]

\* the caller enters run_trip_pipeline(intent)
RunTripPipeline(intent) ==
    /\ prun.pc \in {"idle", "returned", "raised"}
    /\ Len(pcalls) < MaxRuns
    /\ prun' = [IdleRun EXCEPT !.pc = "intake", !.intent = intent]
    /\ plog' = <<>>
    /\ pcalls' = Append(pcalls, [intent |-> intent, key |-> <<>>, research |-> "none",
                                 cleared |-> pcleared])
    /\ pcleared' = FALSE
    /\ UNCHANGED <<pcache, lvars, mvars, rvars, jvars, nvars, cvars, qvars>>

IntakeStage(reply) ==
    /\ prun.pc = "intake"
    /\ LET r == _run_intake_if_needed(prun.intent, reply)
       IN /\ prun' = Advance(prun, r, "structured")
          /\ plog' = plog \o r.calls
    /\ UNCHANGED <<pcache, pcalls, pcleared, lvars, mvars, rvars, jvars, nvars, cvars, qvars>>

ResearchStage(reply) ==
    /\ prun.pc = "research"
    /\ LET r == _run_research(pcache, prun.structured[1], reply)
       IN /\ prun' = Advance(prun, r, "corpus")
          /\ plog' = plog \o r.calls
          /\ pcache' = r.cache
          /\ pcalls' = [pcalls EXCEPT ![Len(pcalls)] =
                            [@ EXCEPT !.key = _cache_key(prun.structured[1]),
                                      !.research = IF r.calls[1].how = "cache" THEN "hit"
                                                   ELSE IF r.raised # "" THEN "raised"
                                                   ELSE "returned"]]
    /\ UNCHANGED <<pcleared, lvars, mvars, rvars, jvars, nvars, cvars, qvars>>

TasteStage(reply) ==
    /\ prun.pc = "taste"
    /\ LET r == _run_taste(prun.structured[1], prun.corpus[1], reply)
       IN /\ prun' = Advance(prun, r, "taste_profile")
          /\ plog' = plog \o r.calls
    /\ UNCHANGED <<pcache, pcalls, pcleared, lvars, mvars, rvars, jvars, nvars, cvars, qvars>>

PlannerStage(reply) ==
    /\ prun.pc = "planner"
    /\ LET r == _run_planner(prun.structured[1], prun.taste_profile[1], prun.corpus[1], reply)
       IN /\ prun' = [Advance(prun, r, "itinerary") EXCEPT !.validated = reply]
          /\ plog' = plog \o r.calls
    /\ UNCHANGED <<pcache, pcalls, pcleared, lvars, mvars, rvars, jvars, nvars, cvars, qvars>>

\* the summary stage and the return of run_trip_pipeline
SummaryStage(reply) ==
    /\ prun.pc = "summary"
    /\ LET r == _run_summary(prun.itinerary[1], reply)
           run == Advance(prun, r, "summary_html")
       IN /\ prun' = IF run.pc = "returned"
                     THEN [run EXCEPT !.result = <<WithSummary(prun.itinerary[1], r.out[1])>>]
                     ELSE run
          /\ plog' = plog \o r.calls
    /\ UNCHANGED <<pcache, pcalls, pcleared, lvars, mvars, rvars, jvars, nvars, cvars, qvars>>

clear_research_cache ==
    /\ prun.pc \in {"idle", "returned", "raised"}
    /\ pcache' = {}
    /\ pcleared' = TRUE
    /\ UNCHANGED <<prun, plog, pcalls, lvars, mvars, rvars, jvars, nvars, cvars, qvars>>

PipelineNext ==
    \/ \E intent \in Intents : RunTripPipeline(intent)
    \/ \E reply \in IntakeReplies : IntakeStage(reply)
    \/ \E reply \in ResearchReplies : ResearchStage(reply)
    \/ \E reply \in TasteReplies : TasteStage(reply)
    \/ \E reply \in PlannerReplies : PlannerStage(reply)
    \/ \E reply \in SummaryReplies : SummaryStage(reply)
    \/ clear_research_cache

SpecPipeline == PipelineInit /\ [][PipelineNext]_vars

\* ------------------------------------------------------- refiner session
MaxDays == 2
MaxIndex == 5

DayA == Day(S(<<"Day 1">>), S(<<"2025-06-01">>), <<ItineraryEvent(<<"p1">>, <<>>)>>)
DayB == Day(S(<<"Day 2">>), NoneV, <<ItineraryEvent(<<"p2">>, <<Place("p2", "Gion")>>)>>)
DayC == Day(NoneV, S(<<"2025-06-01">>), <<>>)
DayU == Day(S(<<"Day 2">>), S(<<"2025-06-01">>), <<ItineraryEvent(<<"p2">>, <<>>)>>)
\* a day whose event names one place and embeds another
DayM == Day(S(<<"Day 2">>), NoneV, <<ItineraryEvent(<<"p1">>, <<Place("p2", "Gion")>>)>>)
Days == {DayA, DayB, DayC, DayU, DayPlan}
RECURSIVE DaySeqs(_)
DaySeqs(n) ==
    IF n = 0 THEN {<<>>}
    ELSE DaySeqs(n - 1) \cup {Append(d, x) : d \in {e \in DaySeqs(n - 1) : Len(e) = n - 1}, x \in Days}
\* what the generation stage may return: a response itinerary and a day
RefinerReplies ==
    {<<>>} \cup {<<[days |-> d, updated_day |-> u]>> :
                    d \in DaySeqs(MaxDays), u \in {DayU, DayA, DayM, DayPlan}}
RefinerRequests ==
    {[days |-> d, day_index |-> i, additional_places |-> a] :
        d \in {<<>>, <<DayA, DayB>>}, i \in 0..MaxIndex,
        a \in {NoPlaces, [NoPlaces EXCEPT !["p1"] = <<Place("p1", "Nishiki")>>]}}

RefinerInit ==
    /\ rreq \in RefinerRequests
    /\ rres = IdleRefiner
    /\ ListenerIdle /\ MemoryIdle /\ PipelineIdle /\ LlmIdle /\ SchemaIdle /\ ClarifierIdle /\ ResearchIdle

\* one RefinerAgent.run call
Refine(reply) ==
    /\ rres.status = "idle"
    /\ rres' = RefinerAgent_run(rreq, reply)
    /\ UNCHANGED <<rreq, lvars, mvars, pvars, jvars, nvars, cvars, qvars>>

\* a caller placing the day of a response itself, without an index
EnsureConsistency(reply) ==
    /\ rres.status = "idle"
    /\ reply # <<>>
    /\ LET placed == ensure_consistency(reply[1].days, reply[1].updated_day, <<>>)
       IN rres' = [status |-> "placed", generated |-> reply[1].days,
                   generated_day |-> reply[1].updated_day, placed |-> placed.days,
                   at |-> placed.at, days |-> placed.days, updated_day |-> placed.days[placed.at]]
    /\ UNCHANGED <<rreq, lvars, mvars, pvars, jvars, nvars, cvars, qvars>>

RefinerNext ==
    \/ \E reply \in RefinerReplies : Refine(reply)
    \/ \E reply \in RefinerReplies : EnsureConsistency(reply)

SpecRefiner == RefinerInit /\ [][RefinerNext]_vars

\* ------------------------------------------------------- llm_json session
LlmArgs ==
    [prompt : {"p1", "p2"}, system : {"s1", "s2"}, model : {"m1", "m2"},
     stop : {<<>>, <<"END">>}, prompt_version : {"v1", "v2"}]

LlmInit ==
    /\ jargs \in LlmArgs
    /\ jcalls = <<>>
    /\ jrun = [pc |-> "start", error |-> ""]
    /\ vrun \in {[IdleValidate EXCEPT !.pc = "llm_json", !.schema = schema] : schema \in Schemas}
    /\ ListenerIdle /\ MemoryIdle /\ PipelineIdle /\ RefinerIdle /\ SchemaIdle /\ ClarifierIdle /\ ResearchIdle

\* the try block of llm_json: the first chat call and the parse of its content
LlmJsonTry(outcome) ==
    /\ jrun.pc = "start"
    /\ jcalls' = Append(jcalls, ChatCall(jargs, FALSE, outcome))
    /\ jrun' = IF Attempt(outcome) = "" THEN [pc |-> "returned", error |-> ""]
               ELSE IF Caught(Attempt(outcome)) THEN [pc |-> "except", error |-> ""]
               ELSE [pc |-> "raised", error |-> Attempt(outcome)]
    /\ UNCHANGED <<jargs, vrun, lvars, mvars, pvars, rvars, nvars, cvars, qvars>>

\* the except block: the second chat call, forcing JSON
LlmJsonExcept(outcome) ==
    /\ jrun.pc = "except"
    /\ jcalls' = Append(jcalls, ChatCall(jargs, TRUE, outcome))
    /\ jrun' = IF Attempt(outcome) = "" THEN [pc |-> "returned", error |-> ""]
               ELSE [pc |-> "raised", error |-> Attempt(outcome)]
    /\ UNCHANGED <<jargs, vrun, lvars, mvars, pvars, rvars, nvars, cvars, qvars>>

\* call_llm_and_validate once llm_json has returned data: validate it
Validate(data) ==
    /\ vrun.pc = "llm_json"
    /\ jrun.pc = "returned"
    /\ vrun' = [vrun EXCEPT !.pc = call_llm_and_validate(vrun.schema, data).pc,
                            !.data = <<data>>,
                            !.error = call_llm_and_validate(vrun.schema, data).error,
                            !.message = call_llm_and_validate(vrun.schema, data).message]
    /\ UNCHANGED <<jargs, jcalls, jrun, lvars, mvars, pvars, rvars, nvars, cvars, qvars>>

\* an exception of llm_json passes through call_llm_and_validate
LlmJsonRaised ==
    /\ vrun.pc = "llm_json"
    /\ jrun.pc = "raised"
    /\ vrun' = [vrun EXCEPT !.pc = "raised", !.error = jrun.error]
    /\ UNCHANGED <<jargs, jcalls, jrun, lvars, mvars, pvars, rvars, nvars, cvars, qvars>>

LlmNext ==
    \/ \E outcome \in ChatOutcomes : LlmJsonTry(outcome)
    \/ \E outcome \in ChatOutcomes : LlmJsonExcept(outcome)
    \/ \E data \in Payloads : Validate(data)
    \/ LlmJsonRaised

SpecLlm == LlmInit /\ [][LlmNext]_vars

\* ------------------------------------------------- normalisation session
MaxPasses == 2
\* a research item payload: dict is FALSE for a value that is not a mapping
ItemPayload(place_id, place, pl, name, address, formatted_address, summary, description,
            highlights, tags) ==
    [dict |-> TRUE, place_id |-> place_id, place |-> place, pl |-> pl, name |-> name,
     address |-> address, formatted_address |-> formatted_address, summary |-> summary,
     description |-> description, highlights |-> highlights, tags |-> tags]
ScalarItem ==
    [ItemPayload(Absent, "absent", NoPlaceData, Absent, Absent, Absent, Absent, Absent, Absent,
                 Absent) EXCEPT !.dict = FALSE]
\* the nested places of the payloads: none, null, empty, and mappings with a
\* name, an identifier, or an address under its loose key
PlaceChoices ==
    {<<"absent", NoPlaceData>>, <<"none", NoPlaceData>>, <<"dict", NoPlaceData>>,
     <<"dict", [NoPlaceData EXCEPT !.name = S(<<"B", "a">>)]>>,
     <<"dict", [NoPlaceData EXCEPT !.place_id = S(<<"b">>), !.name = S(<<"a">>)]>>,
     <<"dict", [NoPlaceData EXCEPT !.place_id = S(<<>>), !.address = S(<<"1">>)]>>}
ItemPayloads ==
    {ItemPayload(c[1], c[2][1], c[2][2], c[3], c[4], c[5], c[6], c[7], c[8], c[9]) :
        c \in {Absent, S(<<>>), S(<<"a", "1">>)} \X PlaceChoices
              \X {Absent, S(<<"B", "!", WS, "a">>), S(<<"!">>)}
              \X {Absent, S(<<"1", WS, "b">>)}
              \X {Absent, S(<<"b">>)}
              \X {Absent, S(<<"a", "-", "-", "B">>)}
              \X {Absent, S(<<"B">>)}
              \X {Absent, OneText(<<WS, ",", "a", ",", WS, "B">>), L(<<<<WS>>, <<"a", WS>>>>)}
              \X {Absent, OneText(<<"a", ",", "a">>), L(<<<<"a">>>>)}}
\* research corpus payloads over a few items, under canonical and loose keys
EmptyCorpus == [key \in CorpusKeys |-> NoBucket]
ItemA == ItemPayload(Absent, "absent", NoPlaceData, S(<<"B">>), S(<<"1">>), Absent, Absent,
                     Absent, Absent, Absent)
ItemB == ItemPayload(S(<<"b">>), "dict", [NoPlaceData EXCEPT !.name = S(<<"a">>)], Absent, Absent,
                     Absent, S(<<"a">>), Absent, L(<<<<"a">>>>), L(<<>>))
ItemC == ItemPayload(S(<<"b">>), "dict",
                     [NoPlaceData EXCEPT !.place_id = S(<<"b">>), !.name = S(<<"a">>)], Absent,
                     Absent, Absent, NoneV, Absent, L(<<<<"a">>>>), L(<<>>))
BucketChoices ==
    {NoBucket, [t |-> "list", items |-> <<ItemC>>], [t |-> "none", items |-> <<>>], [t |-> "dict", items |-> <<ItemA>>],
     [t |-> "list", items |-> <<ItemB, ItemA>>], [t |-> "other", items |-> <<ScalarItem>>],
     [t |-> "list", items |-> <<>>]}
CorpusPayloads ==
    {[EmptyCorpus EXCEPT !["lodgings"] = c[1], !["stays"] = c[2], !["food"] = c[3],
                         !["experiences"] = c[4], !["other"] = c[5], !["dining"] = c[6]] :
        c \in BucketChoices \X (BucketChoices \ {[t |-> "list", items |-> <<>>]})
              \X {NoBucket, [t |-> "dict", items |-> <<ItemA>>]}
              \X {NoBucket, [t |-> "list", items |-> <<ItemC>>]}
              \X {NoBucket, [t |-> "list", items |-> <<ItemB>>], [t |-> "list", items |-> <<>>]}
              \X {NoBucket, [t |-> "list", items |-> <<>>]}}

SchemaInit ==
    /\ \/ nkind = "item" /\ \E payload \in ItemPayloads : npasses = <<payload>>
       \/ nkind = "corpus" /\ \E payload \in CorpusPayloads : npasses = <<payload>>
    /\ ListenerIdle /\ MemoryIdle /\ PipelineIdle /\ RefinerIdle /\ LlmIdle /\ ClarifierIdle /\ ResearchIdle

\* one validation of a research item payload: the normaliser runs over it
NormaliseItem ==
    /\ nkind = "item"
    /\ Len(npasses) <= MaxPasses
    /\ npasses' = Append(npasses, _coerce_llm_variants(npasses[Len(npasses)]))
    /\ UNCHANGED <<nkind, lvars, mvars, pvars, rvars, jvars, cvars, qvars>>

\* one validation of a research corpus payload
NormaliseCorpus ==
    /\ nkind = "corpus"
    /\ Len(npasses) <= MaxPasses
    /\ npasses' = Append(npasses, _normalise_research_buckets(npasses[Len(npasses)]))
    /\ UNCHANGED <<nkind, lvars, mvars, pvars, rvars, jvars, cvars, qvars>>

SchemaNext == NormaliseItem \/ NormaliseCorpus

SpecSchema == SchemaInit /\ [][SchemaNext]_vars

\* ------------------------------------------------ itinerary unwrap session
MaxDepth == 3
WrapperKeys == {"itinerary", "trip", "plan"}
InnerItineraries ==
    {[destination |-> d, days |-> n] : d \in {<<>>, <<"Tokyo">>}, n \in 0..1}
ItineraryPayloads ==
    {[dict |-> TRUE, wrappers |-> w, inner |-> inner] :
        w \in UNION {[1..k -> WrapperKeys] : k \in 0..MaxDepth}, inner \in InnerItineraries}
    \cup {[dict |-> FALSE, wrappers |-> <<>>, inner |-> [destination |-> <<>>, days |-> 0]]}

ItineraryInit ==
    /\ nkind = "itinerary"
    /\ \E payload \in ItineraryPayloads : npasses = <<payload>>
    /\ ListenerIdle /\ MemoryIdle /\ PipelineIdle /\ RefinerIdle /\ LlmIdle /\ ClarifierIdle /\ ResearchIdle

\* one validation of an itinerary payload: the unwrapping runs over it
UnwrapItinerary ==
    /\ nkind = "itinerary"
    /\ Len(npasses) <= MaxPasses
    /\ npasses' = Append(npasses, _unwrap_common_wrappers(npasses[Len(npasses)]))
    /\ UNCHANGED <<nkind, lvars, mvars, pvars, rvars, jvars, cvars, qvars>>

ItineraryNext == UnwrapItinerary

SpecItinerary == ItineraryInit /\ [][ItineraryNext]_vars

\* ------------------------------------------------------ Clarifier session
MaxFields == 3
FieldNames == {"destination", "timing", "vibe", "travel_pace", "budget", "group", "dates"}

ClarifierInit ==
    /\ cfields \in UNION {[1..k -> FieldNames] : k \in 0..MaxFields}
    /\ cres = IdlePrompt
    /\ ListenerIdle /\ MemoryIdle /\ PipelineIdle /\ RefinerIdle /\ LlmIdle /\ SchemaIdle /\ ResearchIdle

\* one Clarifier.run call
Clarify ==
    /\ cres.status = "idle"
    /\ cres' = Clarifier_run(cfields)
    /\ UNCHANGED <<cfields, lvars, mvars, pvars, rvars, jvars, nvars, qvars>>

ClarifierNext == Clarify

SpecClarifier == ClarifierInit /\ [][ClarifierNext]_vars

\* ------------------------------------------- concurrent research sessions
\* Sessions of one process call _run_research; the calls interleave between the
\* cache lookup, the researcher's call and the cache store.
MaxCalls == 3
Sessions == {"s1", "s2"}
ResearchIntents == {Intent(<<"Kyoto">>, NoneV), Intent(<<"Tokyo">>, NoneV)}
ResearchKeys == {_cache_key(intent) : intent \in ResearchIntents}
Corpora == {<<>>} \cup {<<[items |-> c, attached |-> FALSE]>> : c \in {"corpusA", "corpusB"}}
IdleCall == [pc |-> "idle", intent |-> Intent(<<>>, NoneV), corpus |-> 0]
Returned(s, how, obj, heap) ==
    [session |-> s, key |-> _cache_key(qruns[s].intent), how |-> how, value |-> heap[obj]]
CallsBegun == Len(qlog) + Cardinality({s \in Sessions : qruns[s].pc \in {"get", "agent", "store"}})

ResearchInit ==
    /\ qcache = [key \in ResearchKeys |-> 0]
    /\ qheap = <<>>
    /\ qruns = [s \in Sessions |-> IdleCall]
    /\ qlog = <<>>
    /\ ListenerIdle /\ MemoryIdle /\ PipelineIdle /\ RefinerIdle /\ LlmIdle /\ SchemaIdle
    /\ ClarifierIdle

\* a session enters _run_research(trip_intent)
EnterResearch(s, trip_intent) ==
    /\ qruns[s].pc \in {"idle", "returned", "raised"}
    /\ CallsBegun < MaxCalls
    /\ qruns' = [qruns EXCEPT ![s] = [pc |-> "get", intent |-> trip_intent, corpus |-> 0]]
    /\ UNCHANGED <<qcache, qheap, qlog, lvars, mvars, pvars, rvars, jvars, nvars, cvars>>

\* cached = _RESEARCH_CACHE.get(key); on a hit a deep copy is returned
CacheLookup(s) ==
    /\ qruns[s].pc = "get"
    /\ LET cached == qcache[_cache_key(qruns[s].intent)]
           copy == model_copy(qheap, cached)
       IN IF cached # 0
          THEN /\ qheap' = copy.heap
               /\ qruns' = [qruns EXCEPT ![s].pc = "consume", ![s].corpus = copy.obj]
               /\ qlog' = Append(qlog, Returned(s, "cache", copy.obj, copy.heap))
          ELSE /\ qruns' = [qruns EXCEPT ![s].pc = "agent"]
               /\ UNCHANGED <<qheap, qlog>>
    /\ UNCHANGED <<qcache, lvars, mvars, pvars, rvars, jvars, nvars, cvars>>

\* corpus = agent.run(trip_intent): a new corpus, or an exception
AgentRun(s, reply) ==
    /\ qruns[s].pc = "agent"
    /\ IF reply = <<>>
       THEN /\ qruns' = [qruns EXCEPT ![s].pc = "raised"]
            /\ UNCHANGED qheap
       ELSE /\ qheap' = Append(qheap, reply[1])
            /\ qruns' = [qruns EXCEPT ![s].pc = "store", ![s].corpus = Len(qheap) + 1]
    /\ UNCHANGED <<qcache, qlog, lvars, mvars, pvars, rvars, jvars, nvars, cvars>>

\* _RESEARCH_CACHE[key] = corpus.model_copy(deep=True); return corpus
CacheStore(s) ==
    /\ qruns[s].pc = "store"
    /\ LET copy == model_copy(qheap, qruns[s].corpus)
       IN /\ qheap' = copy.heap
          /\ qcache' = [qcache EXCEPT ![_cache_key(qruns[s].intent)] = copy.obj]
          /\ qlog' = Append(qlog, Returned(s, "agent", qruns[s].corpus, copy.heap))
    /\ qruns' = [qruns EXCEPT ![s].pc = "consume"]
    /\ UNCHANGED <<lvars, mvars, pvars, rvars, jvars, nvars, cvars>>

\* the later stages work on the corpus they were handed, and may write to it
Consume(s, attach) ==
    /\ qruns[s].pc = "consume"
    /\ qheap' = IF attach THEN [qheap EXCEPT ![qruns[s].corpus].attached = TRUE] ELSE qheap
    /\ qruns' = [qruns EXCEPT ![s].pc = "returned"]
    /\ UNCHANGED <<qcache, qlog, lvars, mvars, pvars, rvars, jvars, nvars, cvars>>

ResearchNext ==
    \/ \E s \in Sessions, trip_intent \in ResearchIntents : EnterResearch(s, trip_intent)
    \/ \E s \in Sessions : CacheLookup(s)
    \/ \E s \in Sessions, reply \in Corpora : AgentRun(s, reply)
    \/ \E s \in Sessions : CacheStore(s)
    \/ \E s \in Sessions, attach \in BOOLEAN : Consume(s, attach)

SpecResearch == ResearchInit /\ [][ResearchNext]_vars

\* ------------------------------------------------------------------ claims
RequiredFields == Range(_required_fields)

\* a required field has a value in the context: a non-blank destination; a
\* pair of dates, flexible months or a non-blank timing note; a vibe; one of
\* the pace options; one of the budget options; a non-blank group type or a
\* positive group size
NonBlankText(v) == v.t = "str" /\ \E i \in 1..Len(v.s) : ~IsSpace(v.s[i])
Satisfied(context, field) ==
    CASE field = "destination" -> NonBlankText(context["destination"])
      [] field = "timing" ->
            \/ Truthy(context["start_date"]) /\ Truthy(context["end_date"])
            \/ Truthy(context["flexible_months"])
            \/ NonBlankText(context["timing_note"])
      [] field = "vibe" -> context["vibe"].t = "list" /\ context["vibe"].s # <<>>
      [] field = "travel_pace" ->
            context["travel_pace"].t = "str" /\ Strip(context["travel_pace"].s) \in _PACE_OPTIONS
      [] field = "budget" ->
            context["budget"].t = "str" /\ Strip(context["budget"].s) \in _BUDGET_OPTIONS
      [] field = "group" ->
            \/ NonBlankText(context["group_type"])
            \/ (context["group_size"].t = "int" /\ context["group_size"].n > 0)
            \/ (/\ context["group_size"].t = "str"
                /\ Len(Strip(context["group_size"].s)) = 1
                /\ DigitsOf(Strip(context["group_size"].s)[1]) > 0)
      [] OTHER -> FALSE

\* C1: after a Listener.run call that returns, if some pending field is still
\* unsatisfied in the merged context, missing_context is the list of those
\* unresolved pending fields without repeats, in pending order; otherwise it
\* holds only the first unsatisfied field of destination, timing, vibe,
\* travel_pace, budget, group, or is empty when all six are satisfied.
C1_MissingContext ==
    lres.status = "returned" =>
        LET unresolved == SelectSeq(lpending, LAMBDA f : ~Satisfied(lres.merged, f))
            unmet == {k \in 1..Len(_required_fields) :
                        ~Satisfied(lres.merged, _required_fields[k])}
        IN IF unresolved # <<>> THEN lres.missing_context = Dedupe(unresolved, <<>>)
           ELSE IF unmet # {} THEN lres.missing_context = <<_required_fields[Min(unmet)]>>
           ELSE lres.missing_context = <<>>

GateAgrees(state) == ready_for_gallery(state) <=> \A f \in RequiredFields : _has_field(state, f)
MissingOnlyGroup(state) ==
    /\ \A f \in RequiredFields \ {"group"} : FieldResolved(state, f)
    /\ ~Truthy(Get(state, "group_type"))
    /\ ~Truthy(Get(state, "group_size"))
\* C2: the Readiness Gate is true of a conversation state exactly when each of
\* the six required fields satisfies the Listener's _has_field on that state;
\* a state missing only the group signal is not ready.
C2_ReadinessGate ==
    /\ GateAgrees(lctx)
    /\ MissingOnlyGroup(lctx) => ~(\A f \in RequiredFields : _has_field(lctx, f))
    /\ lres.status = "returned" => GateAgrees(lres.merged)


StateKey(field) == IF field = "vibes" THEN "vibe" ELSE field
Omitted(state, field) ==
    IF field = "group_size" THEN _coerce_positive_int(Get(state, field)).t # "int"
    ELSE IF field = "vibes" THEN ~Truthy(Get(state, "vibe"))
    ELSE LET v == Get(state, field)
         IN v.t = "none" \/ (v.t = "str" /\ Strip(v.s) = <<>>)
\* C6: across two successive updates every brief field that had a value after
\* the first update and is omitted from the second update's state (absent,
\* empty, or not a positive integer for group_size) keeps its first value.
C6_StickyFields ==
    mcount >= 2 =>
        \A f \in BriefKeys :
            Truthy(mprev[f]) /\ Omitted(mstate, f) => mbrief[f] = mprev[f]


Finished(i) == i < Len(pcalls) \/ prun.pc \in {"returned", "raised"}
AgentInvoked(call) == call.research \in {"returned", "raised"}
StageRank(stage) ==
    CASE stage = "intake" -> 1 [] stage = "research" -> 2 [] stage = "taste" -> 3
      [] stage = "planner" -> 4 [] stage = "summary" -> 5
StructuredIntent ==
    IF plog # <<>> /\ plog[1].stage = "intake" THEN plog[1].out[1] ELSE prun.intent
\* C7: the invocations of a run are in the order intake, research, taste,
\* planner, summary, each at most once, each after its predecessor returned,
\* and each is handed the outputs of the stages before it.
C7_StageOrder ==
    /\ \A i, j \in 1..Len(plog) : i < j => StageRank(plog[i].stage) < StageRank(plog[j].stage)
    /\ \A j \in 1..Len(plog) :
          LET e == plog[j]
          IN /\ e.stage = "research" /\ j > 1 =>
                    plog[j - 1].stage = "intake" /\ plog[j - 1].out # <<>>
             /\ e.stage \in {"taste", "planner", "summary"} =>
                    /\ j > 1
                    /\ StageRank(plog[j - 1].stage) = StageRank(e.stage) - 1
                    /\ plog[j - 1].out # <<>>
             /\ e.stage = "research" => e.args = <<StructuredIntent>>
             /\ e.stage = "taste" => e.args = <<StructuredIntent, plog[j - 1].out[1]>>
             /\ e.stage = "planner" =>
                    e.args = <<StructuredIntent, plog[j - 1].out[1], plog[j - 2].out[1]>>
             /\ e.stage = "summary" => e.args = <<plog[j - 1].out[1]>>
    /\ prun.pc = "returned" =>
          /\ Len(plog) >= 4
          /\ plog[Len(plog)].stage = "summary"
          /\ plog[Len(plog) - 3].stage = "research"
C7_Witness ==
    /\ prun.pc = "returned"
    /\ Len(plog) = 5
    /\ plog[1].stage = "intake"
    /\ plog[2].how = "agent"

\* C8: a stage that raises ends the run: it is the run's last invocation and
\* the run returns no itinerary, not even the one already planned.
C8_StageFailureAborts ==
    /\ \A j \in 1..Len(plog) :
          plog[j].out = <<>> => j = Len(plog) /\ prun.pc = "raised" /\ prun.result = <<>>
    /\ prun.pc = "raised" => prun.result = <<>>
    /\ prun.result # <<>> => prun.pc = "returned"
C8_Witness ==
    /\ plog # <<>>
    /\ plog[Len(plog)].stage = "summary"
    /\ plog[Len(plog)].out = <<>>
    /\ prun.itinerary # <<>>
    /\ prun.pc = "raised"

NonBlank(notes) == notes.t = "str" /\ \E i \in 1..Len(notes.s) : ~IsSpace(notes.s[i])
\* C9: Intake is invoked exactly when the destination is empty and the notes
\* are not blank; an intent with a destination is passed on unchanged; with
\* neither, the run fails with ValueError before any agent is invoked.
C9_IntakeCondition ==
    prun.pc \notin {"idle", "intake"} =>
        /\ (\E j \in 1..Len(plog) : plog[j].stage = "intake")
              <=> (prun.intent.destination = <<>> /\ NonBlank(prun.intent.notes))
        /\ prun.intent.destination # <<>> => prun.structured = <<prun.intent>>
        /\ prun.intent.destination = <<>> /\ ~NonBlank(prun.intent.notes) =>
              prun.pc = "raised" /\ prun.error = "ValueError" /\ plog = <<>>
C9_Witness ==
    /\ prun.pc = "raised"
    /\ prun.error = "ValueError"
    /\ prun.intent.notes = S(<<WS>>)
    /\ plog = <<>>


\* C4: when the day index addresses an existing day of the response itinerary,
\* after placement the updated day stands at that index, the length is
\* unchanged and every other day is as the generation stage returned it.
C4_PlacementInRange ==
    rres.status = "returned" /\ rreq.day_index < Len(rres.generated) =>
        /\ Len(rres.placed) = Len(rres.generated)
        /\ rres.placed[rreq.day_index + 1] = rres.generated_day
        /\ \A k \in 1..Len(rres.generated) :
              k # rreq.day_index + 1 => rres.placed[k] = rres.generated[k]
        /\ Len(rres.days) = Len(rres.generated)
        /\ rres.days[rreq.day_index + 1] = rres.updated_day
C4_Witness ==
    /\ rres.status = "returned"
    /\ rreq.day_index = 1
    /\ rres.generated = <<DayA, DayB>>
    /\ rres.generated_day = DayU
    /\ rres.placed = <<DayA, DayU>>

Malformed(outcome) == outcome \in {"body_not_json", "content_not_json"}
SameArguments(call) ==
    /\ call.prompt = jargs.prompt /\ call.system = jargs.system /\ call.model = jargs.model
    /\ call.stop = jargs.stop /\ call.prompt_version = jargs.prompt_version
\* C10: llm_json makes its first chat call without force_json; it makes a second
\* call exactly when the first response is not JSON, with force_json and the
\* same prompt, system, model, stop and prompt_version; it never makes a third;
\* every other failure, and a failure of the second call, reaches the caller.
C10_RetryOnce ==
    /\ Len(jcalls) <= 2
    /\ Len(jcalls) >= 1 => ~jcalls[1].force_json /\ SameArguments(jcalls[1])
    /\ Len(jcalls) = 2 =>
          Malformed(jcalls[1].outcome) /\ jcalls[2].force_json /\ SameArguments(jcalls[2])
    /\ jrun.pc \in {"returned", "raised"} =>
          /\ Len(jcalls) = 2 <=> Malformed(jcalls[1].outcome)
          /\ jrun.pc = "returned" <=> jcalls[Len(jcalls)].outcome = "json"
          /\ jrun.pc = "raised" => jrun.error # ""
C10_Witness ==
    /\ jrun.pc = "raised"
    /\ Len(jcalls) = 2
    /\ jcalls[1].outcome = "content_not_json"
    /\ jcalls[2].outcome = "content_not_json"
    /\ jcalls[2].force_json

\* C11: when the JSON a generation stage got back does not validate against
\* the target schema, call_llm_and_validate raises one AgentExecutionError
\* whose message carries the target type name and the validation detail, and
\* no chat call follows the one whose content parsed: a schema failure is
\* never retried.
C11_SchemaFailure ==
    /\ vrun.pc \in {"returned", "raised"} /\ vrun.data # <<>> =>
          /\ jrun.pc = "returned"
          /\ jcalls[Len(jcalls)].outcome = "json"
          /\ \A i \in 1..(Len(jcalls) - 1) : Malformed(jcalls[i].outcome)
          /\ Len(jcalls) <= 2
          /\ IF model_validate(vrun.schema, vrun.data[1]) = ""
             THEN vrun.pc = "returned" /\ vrun.error = ""
             ELSE /\ vrun.pc = "raised"
                  /\ vrun.error = "AgentExecutionError"
                  /\ InSeq(vrun.schema, vrun.message)
                  /\ InSeq(model_validate(vrun.schema, vrun.data[1]), vrun.message)
    /\ vrun.error = "AgentExecutionError" => vrun.data # <<>>
C11_Witness ==
    /\ vrun.pc = "raised"
    /\ vrun.error = "AgentExecutionError"
    /\ vrun.schema = "TripIntent"
    /\ vrun.data = <<[kind |-> "dict", destination |-> Absent]>>
    /\ Len(jcalls) = 1

\* the lookup RefinerAgent.run handed to attach_places
RefinerLookup ==
    LookupUpdate(_build_place_lookup(rreq.days, rres.placed), rreq.additional_places)
\* C12: after attach_places has run over the events of the response itinerary,
\* every event whose place identifier is a key of the lookup has a place
\* object, and that object's place_id is the event's place identifier; this
\* includes events that carried an embedded place before the call.
C12_PlacesAttached ==
    rres.status = "returned" =>
        \A k \in 1..Len(rres.days) : \A j \in 1..Len(rres.days[k].events) :
            LET event == rres.days[k].events[j]
            IN event.place_id # <<>> /\ RefinerLookup[event.place_id[1]] # <<>> =>
                  event.place # <<>> /\ event.place[1].place_id = event.place_id[1]

\* the canonical form of a research item: the canonical keys only, an
\* identifier, list-valued highlights and tags, and a nested place (if any)
\* that carries a name and an identifier
CanonicalItem(item) ==
    /\ item.dict
    /\ item.place_id.t = "str" /\ Truthy(item.place_id)
    /\ ~Has(item.name) /\ ~Has(item.address) /\ ~Has(item.formatted_address)
    /\ ~Has(item.description)
    /\ item.highlights.t = "list" /\ item.tags.t = "list"
    /\ \/ item.place = "none"
       \/ /\ item.place = "dict"
          /\ Truthy(item.pl.place_id) /\ item.pl.name.t = "str" /\ ~Has(item.pl.address)
CanonicalCorpus(corpus) ==
    \A key \in CorpusKeys :
        IF key \in {"lodgings", "dining", "experiences", "other"}
        THEN /\ corpus[key].t = "list"
             /\ \A i \in 1..Len(corpus[key].items) : CanonicalItem(corpus[key].items[i])
        ELSE corpus[key].t = "absent"
Canonical(payload) ==
    IF nkind = "item" THEN CanonicalItem(payload) ELSE CanonicalCorpus(payload)
\* C13: schema normalisation is idempotent: a research item or corpus already
\* in canonical form comes out of the normalisation pass equal to what went
\* in, and for any loose payload a further pass over the output of a pass
\* changes nothing: normalize(normalize(x)) = normalize(x).
C13_Idempotent ==
    /\ \A k \in 3..Len(npasses) : npasses[k] = npasses[2]
    /\ Len(npasses) >= 2 /\ Canonical(npasses[1]) => npasses[2] = npasses[1]
C13_Witness ==
    /\ nkind = "corpus"
    /\ Len(npasses) = 3
    /\ npasses[2] # npasses[1]
    /\ npasses[3] = npasses[2]
    /\ npasses[1]["stays"].t = "dict"
    /\ npasses[2]["lodgings"].t = "list" /\ Len(npasses[2]["lodgings"].items) = 1

\* C14: a refinement patches one day and preserves the rest: when
\* RefinerAgent.run returns, every day of the response itinerary at a position
\* other than request.day_index, within the length of the request itinerary,
\* equals the request's day at that position, and with day_index in range the
\* response itinerary has as many days as the request itinerary.
C14_PreservesRest ==
    rres.status = "returned" =>
        /\ \A j \in 1..Len(rreq.days) :
              j # rreq.day_index + 1 => j <= Len(rres.days) /\ rres.days[j] = rreq.days[j]
        /\ rreq.day_index < Len(rreq.days) => Len(rres.days) = Len(rreq.days)

C16_NeverRaises == lres.status \in {"idle", "returned"}

\* the vibes the last update carried
UpdateVibes == IF mstate["vibe"].t = "list" THEN mstate["vibe"].s ELSE <<>>
\* C17: the brief accumulates vibes by set-union: after an update it holds
\* every vibe it held before and every vibe the update carried, each once under
\* case-insensitive comparison, the earlier ones first, in their order and
\* casing; an update carrying only new vibes drops none of the earlier ones.
C17_VibesUnion ==
    mcount > 0 =>
        /\ \A v \in Range(mprev["vibes"].s) \cup Range(UpdateVibes) :
              Cardinality({i \in 1..Len(mbrief["vibes"].s) :
                              Lower(mbrief["vibes"].s[i]) = Lower(v)}) = 1
        /\ Len(mbrief["vibes"].s) >= Len(mprev["vibes"].s)
        /\ \A i \in 1..Len(mprev["vibes"].s) : mbrief["vibes"].s[i] = mprev["vibes"].s[i]

\* the six field names the Clarifier knows
KnownFields == {"destination", "timing", "vibe", "travel_pace", "budget", "group"}
\* C18: Clarifier.run returns, for every list of field names: fields is the
\* input filtered to the six known names, in input order; the message is the
\* generic fallback line exactly when that list is empty; otherwise it is the
\* first field's prompt, followed, when more fields remain, by a second block
\* that joins the remaining fields' prompts in order.
C18_ClarifierPrompt ==
    cres.status # "idle" =>
        LET known == SelectSeq(cfields, LAMBDA f : f \in KnownFields)
            n == Len(known)
        IN /\ cres.status = "returned"
           /\ cres.fields = known
           /\ (cres.message = <<"Tell me a little more.">>) <=> (n = 0)
           /\ n > 0 =>
                 /\ Len(cres.message) = 2 * n - 1
                 /\ \A i \in 1..n : cres.message[2 * i - 1] = _FIELD_PROMPTS[known[i]]
                 /\ n > 1 => cres.message[2] = "/n/n"
                 /\ \A i \in 2..(n - 1) : cres.message[2 * i] = ", "
C18_Witness ==
    /\ cres.status = "returned"
    /\ cfields = <<"dates", "group", "budget">>
    /\ cres.fields = <<"group", "budget">>
    /\ Len(cres.message) = 3

\* the list a card action files the card under
CardList(action_type) ==
    CASE action_type = <<"like_activity">> -> "liked_cards_add"
      [] action_type = <<"save_activity">> -> "saved_cards_add"
      [] action_type = <<"unlike_activity">> -> "liked_cards_remove"
      [] action_type = <<"unsave_activity">> -> "saved_cards_remove"
CardLists == {"liked_cards_add", "saved_cards_add", "liked_cards_remove", "saved_cards_remove"}
TripUpdateKeys ==
    {"notes_append", "destination", "timing_note", "vibe_add", "travel_pace", "budget",
     "group_type", "group_size", "mood"}
\* the card's explicit id, else its title
CardIdentifier(card) ==
    IF card["id"].t = "str" /\ card["id"].s # <<>> THEN card["id"].s ELSE card["title"].s
\* C19: for a like_activity, save_activity, unlike_activity or unsave_activity
\* action the result's context_updates touch exactly one of liked_cards_add,
\* saved_cards_add, liked_cards_remove, saved_cards_remove, the one of the
\* action, and it holds the single card identifier (the card's id, else its
\* title); trigger_planning is true exactly for like_activity and
\* save_activity; no trip field is updated.
C19_CardAction ==
    lres.status = "returned" /\ laction.json /\ laction.type.t = "str"
        /\ (\E a \in CardActions : laction.type.s = <<a>>) =>
        /\ \A k \in CardLists :
              IF k = CardList(laction.type.s)
              THEN \/ lres.context_updates[k] = L(<<CardIdentifier(laction.card)>>)
                   \/ laction.card = NoCard /\ lres.context_updates[k].t = "list"
                         /\ Len(lres.context_updates[k].s) = 1
              ELSE lres.context_updates[k] = Absent
        /\ lres.trigger_planning <=> laction.type.s \in {<<"like_activity">>, <<"save_activity">>}
        /\ \A k \in TripUpdateKeys : lres.context_updates[k] = Absent
C19_Witness ==
    /\ lres.status = "returned"
    /\ laction.type = S(<<"unsave_activity">>)
    /\ laction.card = [id |-> Absent, title |-> S(<<"Tea">>)]
    /\ lres.context_updates["saved_cards_remove"] = L(<<<<"Tea">>>>)
    /\ ~lres.trigger_planning

\* the first truthy entry among those given, as a list of at most one text
FirstOffered(values) ==
    LET hits == {i \in 1..Len(values) : Truthy(values[i])}
    IN IF hits = {} THEN <<>> ELSE <<values[Min(hits)].s>>
\* what a payload offers for an identifier: its name and address (at the top
\* level or in the nested place), its summary, its first highlight
OfferedName(item) == FirstOffered(<<item.pl.name, item.name>>)
OfferedAddress(item) ==
    FirstOffered(<<item.pl.formatted_address, item.address, item.formatted_address,
                   item.pl.address>>)
OfferedSummary(item) == FirstOffered(<<item.summary, item.description>>)
OfferedHighlight(item) ==
    IF Has(item.highlights) /\ _ensure_list(item.highlights).t = "list"
          /\ _ensure_list(item.highlights).s # <<>>
          /\ Strip(_ensure_list(item.highlights).s[1]) # <<>>
    THEN <<_ensure_list(item.highlights).s[1]>> ELSE <<>>
\* the text the identifier is the slug of
SlugSource(item) ==
    IF OfferedName(item) \o OfferedAddress(item) # <<>>
    THEN Join(OfferedName(item) \o OfferedAddress(item))
    ELSE IF OfferedSummary(item) # <<>> THEN OfferedSummary(item)[1]
    ELSE OfferedHighlight(item)[1]
\* C20: a research item payload without a place_id that offers a name, an
\* address, a summary or a non-blank first highlight normalises to the
\* place_id "generated-" followed by the slug of name and address, or of the
\* summary when there is neither name nor address, or of the first highlight
\* when there is none of those; and a nested place without a place_id of its
\* own receives the item's place_id, synthesised or supplied.
C20_SynthesisedId ==
    nkind = "item" /\ Len(npasses) >= 2 /\ npasses[1].dict =>
        /\ (/\ ~Has(npasses[1].place_id) /\ ~Has(npasses[1].pl.place_id)
            /\ OfferedName(npasses[1]) \o OfferedAddress(npasses[1])
                  \o OfferedSummary(npasses[1]) \o OfferedHighlight(npasses[1]) # <<>>)
           => npasses[2].place_id = S(<<"generated-">> \o _slugify(SlugSource(npasses[1])))
        /\ npasses[2].place = "dict" /\ ~Truthy(npasses[1].pl.place_id)
              /\ Truthy(npasses[2].place_id)
           => npasses[2].pl.place_id = npasses[2].place_id

\* C21: itinerary normalisation unwraps redundant nesting until no further
\* unwrap applies: for a payload made of any sequence of nested single-key
\* wrappers named itinerary or trip, in any order and depth, validation
\* operates on the innermost object, and a payload with no such wrapper is
\* left unchanged.
C21_UnwrapsAll ==
    Len(npasses) >= 2 /\ npasses[1].dict
        /\ Range(npasses[1].wrappers) \subseteq {"itinerary", "trip"}
    => npasses[2] = [npasses[1] EXCEPT !.wrappers = <<>>]

\* C22: every itinerary returned by run_trip_pipeline has a non-empty
\* destination: the planner output's own destination when that is non-empty,
\* and otherwise the destination of the structured intent handed to the
\* planner.
C22_DestinationFilled ==
    prun.pc = "returned" =>
        /\ prun.result[1].destination # <<>>
        /\ prun.result[1].destination =
              IF prun.validated[1].destination # <<>> THEN prun.validated[1].destination
              ELSE prun.structured[1].destination
C22_Witness ==
    /\ prun.pc = "returned"
    /\ prun.validated[1].destination = <<>>
    /\ prun.intent.destination = <<>>
    /\ prun.result[1].destination = <<"Tokyo">>

\* C23: after the Refiner's placement step the updated day occupies a single
\* position of the response itinerary: exactly one index of the response's
\* days holds updated_day, whatever days the generation stage returned.
C23_SinglePosition ==
    rres.status = "returned" =>
        Cardinality({k \in 1..Len(rres.days) : rres.days[k] = rres.updated_day}) = 1

\* the days of the generated itinerary matching the generated day by date, and
\* by label
DateMatches ==
    {k \in 1..Len(rres.generated) :
        Truthy(rres.generated[k].date) /\ rres.generated[k].date = rres.generated_day.date}
LabelMatches ==
    {k \in 1..Len(rres.generated) :
        Truthy(rres.generated[k].label) /\ rres.generated[k].label = rres.generated_day.label}
\* C24: when ensure_consistency is called without a day index, the updated
\* day replaces the first existing day whose date matches; only if no day of
\* the whole itinerary matches by date does it replace the first day whose
\* label matches; only if neither exists is it appended; in the first two
\* cases the length is unchanged and in the last it grows by exactly one.
C24_DateBeforeLabel ==
    rres.status = "placed" =>
        IF DateMatches # {}
        THEN rres.placed = [rres.generated EXCEPT ![Min(DateMatches)] = rres.generated_day]
        ELSE IF LabelMatches # {}
        THEN rres.placed = [rres.generated EXCEPT ![Min(LabelMatches)] = rres.generated_day]
        ELSE rres.placed = Append(rres.generated, rres.generated_day)

\* C25: the trip brief's occasion is derived once: after an update has set
\* the occasion (explicitly or from the keyword scan of the notes and timing
\* text), no later update whose state carries no explicit occasion changes
\* it, whatever occasion keywords the notes or timing_note hold by then.
C25_OccasionOnce ==
    Truthy(mprev["occasion"]) /\ ~Truthy(_clean_text(Get(mstate, "occasion")))
        => mbrief["occasion"] = mprev["occasion"]

\* C26: when two sessions run research concurrently for intents with the same
\* cache key, the race on the cache is benign: the entry that remains is
\* value-equal to what the other writer produced, so every later cache hit
\* for the key returns a corpus equal to the one each racing run returned.
C26_BenignRace ==
    \A i, j \in 1..Len(qlog) :
        i < j /\ qlog[i].key = qlog[j].key /\ qlog[i].how = "agent" /\ qlog[j].how = "cache"
            => qlog[j].value = qlog[i].value

\* C27: slot filling makes progress and is monotone: in a session where each
\* turn's context is the merged context of the turn before and its
\* pending_fields the missing_context of the turn before (the first turn has
\* none), a required field that satisfies _has_field in one turn satisfies it
\* in every later turn, pending_fields only ever holds required field names,
\* and from the first turn whose merged context satisfies all six required
\* fields on, the Listener returns an empty missing_context.
C27_SlotFilling ==
    /\ Range(lpending) \subseteq RequiredFields
    /\ lres.status = "returned" =>
          /\ \A field \in RequiredFields :
                _has_field(lctx, field) => _has_field(lres.merged, field)
          /\ Range(lres.missing_context) \subseteq RequiredFields
          /\ (\A field \in RequiredFields : _has_field(lres.merged, field))
                => lres.missing_context = <<>>
C27_Witness ==
    /\ lturn = 3
    /\ lres.status = "returned"
    /\ lpending # <<>>
    /\ ~_has_field(lctx, "group")
    /\ \A field \in RequiredFields : _has_field(lres.merged, field)
    /\ lres.missing_context = <<>>

\* the keys the cache holds an entry for, and the keys a ResearcherAgent.run
\* call has returned a corpus for since the cache was last cleared
CachedKeys == {entry[1] : entry \in pcache}
ResearchedSinceClear ==
    {i \in 1..Len(pcalls) :
        /\ pcalls[i].research = "returned"
        /\ ~pcleared
        /\ \A j \in (i + 1)..Len(pcalls) : ~pcalls[j].cleared}
\* C28: in single-threaded use the research cache holds an entry for a key
\* exactly when a ResearcherAgent.run call for that key has returned since
\* the last clear_research_cache: a failed research call writes nothing, a
\* failure of a later stage does not remove the entry, and an existing entry
\* is never overwritten before the next clear.
C28_CacheEntries ==
    /\ [](/\ CachedKeys = {pcalls[i].key : i \in ResearchedSinceClear}
          /\ \A i, j \in ResearchedSinceClear : pcalls[i].key = pcalls[j].key => i = j
          /\ \A e1, e2 \in pcache : e1[1] = e2[1] => e1 = e2)
    /\ [][pcache \subseteq pcache' \/ (pcache' = {} /\ pcleared')]_vars
C28_Witness ==
    /\ Len(pcalls) = 2
    /\ pcalls[1].research = "raised"
    /\ pcalls[2].research = "returned"
    /\ pcalls[2].key = pcalls[1].key
    /\ prun.pc = "raised" /\ prun.error = "planner"
    /\ CachedKeys = {pcalls[2].key}

\* C29: cached research results are isolated from their consumers: the corpus
\* handed to the later stages is never the same object as the cache entry (a
\* deep copy is stored on a miss, a deep copy is returned on a hit), so what a
\* run writes to its corpus, such as attached Place records, leaves the cached
\* entry and the corpora of all other runs unchanged.
C29_CacheIsolated ==
    /\ \A s \in Sessions, key \in ResearchKeys :
          qruns[s].corpus # 0 => qcache[key] # qruns[s].corpus
    /\ \A s, t \in Sessions : s # t /\ qruns[s].corpus # 0 => qruns[t].corpus # qruns[s].corpus
    /\ \A key \in ResearchKeys : qcache[key] # 0 => ~qheap[qcache[key]].attached
    /\ \A s \in Sessions :
          qruns[s].pc \in {"store", "consume"} => ~qheap[qruns[s].corpus].attached
C29_Witness ==
    /\ qruns["s1"].pc = "returned" /\ qheap[qruns["s1"].corpus].attached
    /\ qruns["s2"].pc = "consume" /\ qruns["s2"].intent = qruns["s1"].intent
    /\ qlog[Len(qlog)].how = "cache" /\ qlog[Len(qlog)].session = "s2"
    /\ qcache[_cache_key(qruns["s1"].intent)] # 0
    /\ qheap[qruns["s2"].corpus] = qheap[qcache[_cache_key(qruns["s1"].intent)]]

\* a chat message of one or more words that name a month, a pace or budget, or
\* a group, and no place
AnswersAnotherQuestion(action) ==
    /\ action.json /\ action.type = S(<<"message">>)
    /\ action.text.t = "str" /\ action.text.s # <<>>
    /\ Range(action.text.s) \subseteq {"June", "Moderate", "couple"}
\* C30: the destination is sticky across chat turns: once the context holds
\* a destination, a chat message that only answers another pending question
\* (a reply of one to four words naming a pace, a budget, a group or a month)
\* leaves the destination of the merged context unchanged.
C30_DestinationSticky ==
    lres.status = "returned" /\ Truthy(lctx["destination"]) /\ AnswersAnotherQuestion(laction)
        => lres.merged["destination"] = lctx["destination"]

====
